---- MODULE Spec2Model ----
(***************************************************************************)
(* Model of linto-deploy: the ProfileConfig model and its validation, the  *)
(* secret provider, and the Compose / Swarm / k3s renderers.               *)
(*                                                                         *)
(* Python values are modelled as follows: str -> TLA+ string, None -> the  *)
(* sentinel None, bool -> BOOLEAN, list -> sequence, dict -> function      *)
(* (record).  Python truthiness of an optional string is Truthy.           *)
(***************************************************************************)
EXTENDS Integers, Sequences, FiniteSets, TLC

VARIABLES
    data,          \* keyword arguments handed to ProfileConfig(**data)
    pc,            \* "new" | "constructed" | "failed"
    profile,       \* the ProfileConfig object held by the caller, or NoProfile
    error,         \* message of the ValueError raised by construction, or ""
    genArg,        \* argument of the last generate_secrets call, or NoProfile
    genCount,      \* number of generate_secrets calls made on the profile
    composeRuns,   \* documents returned by the render_compose calls on the profile
    stackRuns,     \* documents returned by the render_stack calls on the profile
    k3sRuns,       \* values files written by the render_k3s calls on the profile
    charts,        \* chart directories present under get_charts_dir()
    cluster,       \* what exists in the Kubernetes cluster
    disk,          \* what exists under .linto (saved profile, values, TLS backup)
    opCall,        \* the apply_k3s / destroy_k3s call made, or NoCall
    opLog,         \* external commands and file operations of that call, in order
    opOutcome,     \* "" | "returned" | code of the ValidationError it raised
    cliCall,       \* the command line run, or NoCommand
    cliExit,       \* exit code of the command, or NoExit
    cliPrompts,    \* number of confirmation prompts the command asked
    backendCalls,  \* backend functions the command called, in order
    environ,       \* os.environ.get("KUBECONFIG"), or None when unset
    tmpFiles,      \* temporary kubeconfig files that exist
    contexts,      \* the KubeconfigContext objects entered and not yet exited
    entered,       \* number of KubeconfigContext objects entered so far
    created,       \* number of temporary files created so far
    outerEnv,      \* value of KUBECONFIG before the outermost context was entered
    files,         \* .linto/profiles: the content of <stem>.json for each stem present
    fsCall,        \* the profile operation called last, or NoOp
    fsResult,      \* what that call returned or raised
    rendered,      \* .linto/render/k3s/<profile>/values: the document of each file
    passes,        \* the generate_k3s calls in progress: position and locals of each
    genRuns,       \* the profile file and values files each completed generate left
    gpuCall        \* what validate_gpu_capacity(profile) returned or raised, or NoCheck

\* the profile object and its artifacts
modelVars == <<data, pc, profile, error, genArg, genCount, composeRuns, stackRuns, k3sRuns>>
\* the deployment environment
envVars == <<charts, cluster, disk, opCall, opLog, opOutcome>>

\* the command line
cliVars == <<cliCall, cliExit, cliPrompts, backendCalls>>
\* the process environment and the temporary directory
kcVars == <<environ, tmpFiles, contexts, entered, created, outerEnv>>

\* the profiles directory, the values directory and the calls made on them
storeVars == <<files, fsCall, fsResult, rendered, passes, genRuns, gpuCall>>

vars == <<modelVars, envVars, cliVars, kcVars, storeVars>>

-----------------------------------------------------------------------------
(* Bounds *)

\* number of distinct outcomes of the random generator considered per call
NumDraws == 2
\* generate_secrets calls per run
MaxGen == 2
\* render calls remembered (and made) per renderer and run
MaxRenders == 2
\* KubeconfigContext objects entered per run
MaxEnters == 4
\* calls made on the profiles directory per run
MaxOps == 2
\* generate_k3s and apply_k3s calls made on the stored profile per run
MaxCalls == 3

-----------------------------------------------------------------------------
(* Python values *)

None == "<None>"

\* bool(v) for v : str | None
Truthy(v) == v # None /\ v # ""

\* `v or ""`
OrEmpty(v) == IF Truthy(v) THEN v ELSE ""

\* dict.update / item assignment: entries of new override those of old
Update(old, new) == new @@ old

Range(s) == { s[i] : i \in DOMAIN s }

NoProfile == [absent |-> TRUE]

-----------------------------------------------------------------------------
(* model/profile.py: enums and field defaults *)

DeploymentBackend == {"compose", "swarm", "k3s"}
TLSMode == {"off", "mkcert", "acme", "custom"}
StreamingSTTVariant == {"whisper", "kaldi-french", "nemo-french", "nemo-english", "kyutai"}
GPUArchitecture == {"hopper", "ada", "ampere"}
GPUMode == {"none", "exclusive", "time-slicing", "timeslicing"}

FieldDefaults ==
    [ name |-> "dev",
      domain |-> "localhost",
      kubeconfig |-> None,
      image_tag |-> "latest-unstable",
      service_tags |-> <<>>,
      tls_mode |-> "mkcert",
      backend |-> "compose",
      gpu_mode |-> "none",
      studio_enabled |-> TRUE,
      stt_enabled |-> TRUE,
      security_level |-> "0",
      live_session_enabled |-> FALSE,
      streaming_stt_variants |-> <<>>,
      kyutai_gpu_architecture |-> None,
      session_transcriber_replicas |-> 2,
      llm_enabled |-> FALSE,
      openai_api_base |-> None,
      openai_api_token |-> None,
      vllm_enabled |-> FALSE,
      acme_email |-> None,
      custom_cert_path |-> None,
      custom_key_path |-> None,
      redis_password |-> None,
      jwt_secret |-> None,
      jwt_refresh_secret |-> None,
      super_admin_email |-> "admin@linto.local",
      super_admin_password |-> None,
      session_postgres_password |-> None,
      session_crypt_key |-> None,
      llm_postgres_password |-> None,
      llm_redis_password |-> None,
      k3s_namespace |-> "linto",
      k3s_storage_class |-> None,
      k3s_install_cert_manager |-> FALSE,
      k3s_tls_secret_name |-> "linto-tls",
      k3s_database_host_path |-> None,
      k3s_files_host_path |-> None,
      k3s_database_node_selector |-> None,
      gpu_count |-> 1,
      gpu_slices_per_gpu |-> 4,
      k3s_database_node_role |-> None,
      monitoring_enabled |-> FALSE,
      llm_encryption_key |-> None,
      llm_admin_username |-> "admin",
      llm_admin_password |-> None,
      smtp_enabled |-> FALSE,
      smtp_host |-> None,
      smtp_port |-> 465,
      smtp_secure |-> TRUE,
      smtp_require_tls |-> TRUE,
      smtp_auth |-> None,
      smtp_password |-> None,
      smtp_no_reply_email |-> None,
      oidc_google_enabled |-> FALSE,
      oidc_google_client_id |-> None,
      oidc_google_client_secret |-> None,
      oidc_github_enabled |-> FALSE,
      oidc_github_client_id |-> None,
      oidc_github_client_secret |-> None,
      oidc_native_type |-> None,
      oidc_native_client_id |-> None,
      oidc_native_client_secret |-> None,
      oidc_native_url |-> None,
      oidc_native_scope |-> "openid,email,profile" ]

\* The fields generate_secrets may write.
SecretFields ==
    { "redis_password", "jwt_secret", "jwt_refresh_secret", "super_admin_password",
      "session_postgres_password", "session_crypt_key",
      "llm_postgres_password", "llm_redis_password", "llm_encryption_key",
      "llm_admin_password" }

-----------------------------------------------------------------------------
(* model/profile.py: field validators.  The regular expressions are        *)
(* tabulated over the strings the input families below draw from.          *)

\* re.match(r"^[a-zA-Z0-9][a-zA-Z0-9-]*$", v), with Field(min_length=1, max_length=32)
validate_name(v) == v \in {"dev", "test", "prod-1"}

\* v == "localhost" or the RFC 952/1123 hostname pattern
validate_domain(v) == v = "localhost" \/ v \in {"test.local", "example.com"}

\* the e-mail pattern of validate_email
validate_email(v) == v \in {"admin@linto.local", "root@example.com"}

\* v is None or len(v) >= 8
validate_password(v) == v = None \/ Len(v) >= 8

\* Messages of the field-level errors, in field declaration order.
FieldErrors(d) ==
    (IF validate_name(d.name) THEN <<>>
        ELSE <<"Profile name must be alphanumeric with optional hyphens">>)
    \o (IF validate_domain(d.domain) THEN <<>> ELSE <<"Invalid hostname format">>)
    \o (IF d.tls_mode \in TLSMode THEN <<>> ELSE <<"Input should be 'off', 'mkcert', 'acme' or 'custom'">>)
    \o (IF d.backend \in DeploymentBackend THEN <<>> ELSE <<"Input should be 'compose', 'swarm' or 'k3s'">>)
    \o (IF d.gpu_mode \in GPUMode THEN <<>> ELSE <<"Input should be a GPU mode">>)
    \o (IF Range(d.streaming_stt_variants) \subseteq StreamingSTTVariant THEN <<>>
        ELSE <<"Input should be a streaming STT variant">>)
    \o (IF d.kyutai_gpu_architecture \in GPUArchitecture \cup {None} THEN <<>>
        ELSE <<"Input should be 'hopper', 'ada' or 'ampere'">>)
    \o (IF d.session_transcriber_replicas >= 1 THEN <<>>
        ELSE <<"Input should be greater than or equal to 1">>)
    \o (IF validate_email(d.super_admin_email) THEN <<>> ELSE <<"Invalid email format">>)
    \o (IF validate_password(d.super_admin_password) THEN <<>>
        ELSE <<"Password must be at least 8 characters">>)
    \o (IF d.gpu_count >= 1 THEN <<>> ELSE <<"Input should be greater than or equal to 1">>)
    \o (IF d.gpu_slices_per_gpu >= 1 THEN <<>> ELSE <<"Input should be greater than or equal to 1">>)

-----------------------------------------------------------------------------
(* model/profile.py: ProfileConfig.validate_profile (model validator,      *)
(* mode="after").  Returns the message of the first check that raises, or  *)
(* "" when the profile is accepted.                                        *)

\* variant: the `not` in front of llm_enabled is missing
ServicesCheck_LlmNotNegated(self) ==
    IF ~self.studio_enabled /\ ~self.stt_enabled /\ ~self.live_session_enabled /\ self.llm_enabled
    THEN "At least one service must be enabled (Studio, STT, Live Session, or LLM)"
    ELSE ""

\* "At least one service must be enabled"
ServicesCheck(self) ==
    IF ~self.studio_enabled /\ ~self.stt_enabled /\ ~self.live_session_enabled /\ ~self.llm_enabled
    THEN "At least one service must be enabled (Studio, STT, Live Session, or LLM)"
    ELSE ""

\* variant: the architecture test is inverted
KyutaiCheck_Inverted(self) ==
    IF self.live_session_enabled /\ "kyutai" \in Range(self.streaming_stt_variants)
       /\ self.kyutai_gpu_architecture # None
    THEN "Kyutai streaming STT requires kyutai_gpu_architecture to be set"
    ELSE ""

\* "Kyutai requires GPU architecture"
KyutaiCheck(self) ==
    IF self.live_session_enabled /\ "kyutai" \in Range(self.streaming_stt_variants)
       /\ self.kyutai_gpu_architecture = None
    THEN "Kyutai streaming STT requires kyutai_gpu_architecture to be set"
    ELSE ""

\* "ACME requires email"
AcmeCheck(self) ==
    IF self.tls_mode = "acme" /\ ~Truthy(self.acme_email)
    THEN "ACME TLS mode requires acme_email"
    ELSE ""

\* variant: `and` in place of `or` between the two path tests
CustomTlsCheck_And(self) ==
    IF self.tls_mode = "custom"
       /\ (~Truthy(self.custom_cert_path) /\ ~Truthy(self.custom_key_path))
    THEN "Custom TLS mode requires custom_cert_path and custom_key_path"
    ELSE ""

\* "Custom TLS requires cert and key paths"
CustomTlsCheck(self) ==
    IF self.tls_mode = "custom"
       /\ (~Truthy(self.custom_cert_path) \/ ~Truthy(self.custom_key_path))
    THEN "Custom TLS mode requires custom_cert_path and custom_key_path"
    ELSE ""

\* "SMTP validation"
SmtpCheck(self) ==
    IF ~self.smtp_enabled THEN ""
    ELSE IF ~Truthy(self.smtp_host) THEN "SMTP host is required when SMTP is enabled"
    ELSE IF ~Truthy(self.smtp_auth) THEN "SMTP auth user is required when SMTP is enabled"
    ELSE IF ~Truthy(self.smtp_no_reply_email) THEN "No-reply email is required when SMTP is enabled"
    ELSE ""

\* "Google OIDC validation"
GoogleCheck(self) ==
    IF ~self.oidc_google_enabled THEN ""
    ELSE IF ~Truthy(self.oidc_google_client_id)
    THEN "Google client ID is required when Google OIDC is enabled"
    ELSE IF ~Truthy(self.oidc_google_client_secret)
    THEN "Google client secret is required when Google OIDC is enabled"
    ELSE ""

\* "GitHub OIDC validation"
GithubCheck(self) ==
    IF ~self.oidc_github_enabled THEN ""
    ELSE IF ~Truthy(self.oidc_github_client_id)
    THEN "GitHub client ID is required when GitHub OIDC is enabled"
    ELSE IF ~Truthy(self.oidc_github_client_secret)
    THEN "GitHub client secret is required when GitHub OIDC is enabled"
    ELSE ""

\* variant: the URL test is missing
NativeCheck_NoUrl(self) ==
    IF ~Truthy(self.oidc_native_type) THEN ""
    ELSE IF self.oidc_native_type \notin {"linagora", "eu"}
    THEN "Native OIDC type must be 'linagora' or 'eu'"
    ELSE IF ~Truthy(self.oidc_native_client_id)
    THEN "Native OIDC client ID is required when type is set"
    ELSE IF ~Truthy(self.oidc_native_client_secret)
    THEN "Native OIDC client secret is required when type is set"
    ELSE ""

\* "Native OIDC validation"
NativeCheck(self) ==
    IF ~Truthy(self.oidc_native_type) THEN ""
    ELSE IF self.oidc_native_type \notin {"linagora", "eu"}
    THEN "Native OIDC type must be 'linagora' or 'eu'"
    ELSE IF ~Truthy(self.oidc_native_client_id)
    THEN "Native OIDC client ID is required when type is set"
    ELSE IF ~Truthy(self.oidc_native_client_secret)
    THEN "Native OIDC client secret is required when type is set"
    ELSE IF ~Truthy(self.oidc_native_url)
    THEN "Native OIDC URL is required when type is set"
    ELSE ""

\* The first message of a sequence of check results, "" if all passed.
FirstError(msgs) ==
    IF \A i \in DOMAIN msgs : msgs[i] = "" THEN ""
    ELSE msgs[CHOOSE i \in DOMAIN msgs : msgs[i] # "" /\ \A j \in 1..(i-1) : msgs[j] = ""]

validate_profile(self) ==
    FirstError(<< ServicesCheck(self), KyutaiCheck(self), AcmeCheck(self),
                  CustomTlsCheck(self), SmtpCheck(self), GoogleCheck(self),
                  GithubCheck(self), NativeCheck(self) >>)

\* ProfileConfig(**d): defaults for the missing keys, then the field
\* validators, then (only if no field failed) the model validator.
ProfileConfig(d) ==
    LET full == d @@ FieldDefaults
        ferr == FieldErrors(full)
        merr == validate_profile(full)
    IN  IF ferr # <<>> THEN [ok |-> FALSE, msg |-> ferr[1], value |-> NoProfile]
        ELSE IF merr # "" THEN [ok |-> FALSE, msg |-> merr, value |-> NoProfile]
        ELSE [ok |-> TRUE, msg |-> "", value |-> full]

-----------------------------------------------------------------------------
(* utils/secrets.py.  One call of generate_secrets consumes the random     *)
(* source; draw names the outcome of the source for that call, and the     *)
(* model considers NumDraws outcomes.                                      *)

RECURSIVE Repeat(_, _)
Repeat(c, n) == IF n = 0 THEN "" ELSE c \o Repeat(c, n - 1)

\* string.ascii_letters + string.digits (a prefix)
PasswordAlphabet == <<"a", "b", "c", "d", "e", "f">>
\* string.ascii_uppercase + string.digits (a prefix)
CryptAlphabet == <<"A", "B", "C", "D", "E", "F">>

\* "".join(secrets.choice(alphabet) for _ in range(length))
generate_password(length, draw) == Repeat(PasswordAlphabet[draw], length)

generate_crypt_key(length, draw) == Repeat(CryptAlphabet[draw], length)

\* base64.urlsafe_b64encode(secrets.token_bytes(32)).decode(): 44 characters
generate_fernet_key(draw) == Repeat(CryptAlphabet[draw], 43) \o "="

\* variant: the field is written whether or not it was set
FillIfMissing_Always(d, field, value) == [d EXCEPT ![field] = value]

\* `if not data.get(field): data[field] = value`
FillIfMissing(d, field, value) ==
    IF ~Truthy(d[field]) THEN [d EXCEPT ![field] = value] ELSE d

\* variant: jwt_secret is generated anew on every call
FillCoreSecrets_Refresh(d, draw) ==
    LET d1 == FillIfMissing(d, "redis_password", generate_password(32, draw))
        d2 == Update(d1, [jwt_secret |-> generate_password(32, draw)])
        d3 == FillIfMissing(d2, "jwt_refresh_secret", generate_password(32, draw))
    IN  FillIfMissing(d3, "super_admin_password", generate_password(16, draw))

\* "Core secrets"
FillCoreSecrets(d, draw) ==
    LET d1 == FillIfMissing(d, "redis_password", generate_password(32, draw))
        d2 == FillIfMissing(d1, "jwt_secret", generate_password(32, draw))
        d3 == FillIfMissing(d2, "jwt_refresh_secret", generate_password(32, draw))
    IN  FillIfMissing(d3, "super_admin_password", generate_password(16, draw))

\* variant: the session secrets are generated whatever live_session_enabled is
FillSessionSecrets_Unconditional(d, draw) ==
    LET d1 == FillIfMissing(d, "session_postgres_password", generate_password(32, draw))
    IN  FillIfMissing(d1, "session_crypt_key", generate_crypt_key(10, draw))

\* "Session secrets (for Live Session)"
FillSessionSecrets(d, draw) ==
    IF d.live_session_enabled
    THEN LET d1 == FillIfMissing(d, "session_postgres_password", generate_password(32, draw))
         IN  FillIfMissing(d1, "session_crypt_key", generate_crypt_key(10, draw))
    ELSE d

\* "LLM secrets"
FillLlmSecrets(d, draw) ==
    IF d.llm_enabled
    THEN LET d1 == FillIfMissing(d, "llm_postgres_password", generate_password(32, draw))
             d2 == FillIfMissing(d1, "llm_redis_password", generate_password(32, draw))
             d3 == FillIfMissing(d2, "llm_encryption_key", generate_fernet_key(draw))
         IN  FillIfMissing(d3, "llm_admin_password", generate_password(16, draw))
    ELSE d

\* generate_secrets(p): data = p.model_dump(); fill; return ProfileConfig(**data)
generate_secrets(p, draw) ==
    ProfileConfig(FillLlmSecrets(FillSessionSecrets(FillCoreSecrets(p, draw), draw), draw))

-----------------------------------------------------------------------------
(* model/service.py *)

EmptyDict == <<>>

\* An optional structured value: <<>> for None, <<v>> for a value.
Some(v) == <<v>>

VolumeMount(source, target, read_only) ==
    [source |-> source, target |-> target, read_only |-> read_only]

HealthcheckConfig(test, interval, timeout, retries, start_period) ==
    [test |-> test, interval |-> interval, timeout |-> timeout, retries |-> retries,
     start_period |-> start_period]

RestartPolicy(condition) ==
    [condition |-> condition, delay |-> None, max_attempts |-> None, window |-> None]

DeployConfig(fields) ==
    fields @@ [mode |-> "replicated", replicas |-> 1, placement_constraints |-> <<>>,
               resources |-> <<>>, labels |-> <<>>, restart_policy |-> <<>>]

ServiceDefinition(fields) ==
    fields @@ [depends_on |-> <<>>, networks |-> <<>>, volumes |-> <<>>,
               environment |-> EmptyDict, ports |-> <<>>, expose |-> <<>>,
               command |-> <<>>, traefik_endpoint |-> None,
               traefik_strip_prefix |-> FALSE, traefik_server_port |-> 80,
               healthcheck |-> <<>>, restart |-> "unless-stopped", deploy |-> <<>>,
               gpu_required |-> FALSE, extra_labels |-> <<>>]

-----------------------------------------------------------------------------
(* catalog/services.py *)

STUDIO_NETWORKS == [net_studio |-> [driver |-> "bridge"]]

STT_NETWORKS ==
    [net_stt_services |-> [driver |-> "bridge"], task_broker_services |-> [driver |-> "bridge"]]

SESSION_NETWORKS == [session_network |-> [driver |-> "bridge"]]

LLM_NETWORKS == [net_llm_services |-> [driver |-> "bridge"]]

DockerSock == VolumeMount("/var/run/docker.sock", "/var/run/docker.sock", TRUE)

MongoHealthcheck ==
    HealthcheckConfig(<<"CMD", "mongosh", "--eval", "db.adminCommand('ping')">>,
                      "30s", "10s", 3, "30s")

WgetHealthcheck(interval, retries, start_period) ==
    HealthcheckConfig(<<"CMD", "wget", "--quiet", "--tries=1", "--spider",
                        "http://localhost:80/healthcheck">>,
                      interval, "10s", retries, start_period)

_api_gateway_service(image_tag) ==
    ServiceDefinition(
      [ name |-> "api-gateway", category |-> "stt",
        image |-> "lintoai/linto-api-gateway:" \o image_tag,
        networks |-> <<"linto", "net_stt_services">>,
        traefik_endpoint |-> "/gateway", traefik_strip_prefix |-> TRUE,
        volumes |-> <<DockerSock>>,
        environment |-> [COMPONENT |-> "ServiceWatcher,WebServer",
                         DEBUG |-> "saas-api-gateway*"] ])

TraefikBaseCommand ==
    << "--api.insecure=true", "--providers.docker=true",
       "--providers.docker.exposedbydefault=false", "--entrypoints.web.address=:80",
       "--entrypoints.websecure.address=:443", "--entrypoints.rtmp.address=:1935/tcp",
       "--entrypoints.srt.address=:8889/udp" >>

TraefikFileProvider ==
    [ command |-> <<"--providers.file.directory=/etc/traefik/dynamic",
                    "--providers.file.watch=true">>,
      volumes |-> << VolumeMount("./.linto/tls/certs", "/certs", TRUE),
                     VolumeMount("./.linto/traefik/dynamic", "/etc/traefik/dynamic", TRUE) >> ]

TraefikAcme ==
    [ command |-> <<"--certificatesresolvers.leresolver.acme.httpchallenge=true",
                    "--certificatesresolvers.leresolver.acme.httpchallenge.entrypoint=web",
                    "--certificatesresolvers.leresolver.acme.storage=/acme.json">>,
      volumes |-> << VolumeMount("./.linto/tls/acme.json", "/acme.json", FALSE) >> ]

_traefik_service(domain, tls_mode) ==
    LET extra == IF tls_mode = "mkcert" THEN TraefikFileProvider
                 ELSE IF tls_mode = "acme" THEN TraefikAcme
                 ELSE IF tls_mode = "custom" THEN TraefikFileProvider
                 ELSE [command |-> <<>>, volumes |-> <<>>]
    IN  ServiceDefinition(
          [ name |-> "traefik", category |-> "infra", image |-> "traefik:2.9.1",
            ports |-> <<"80:80", "443:443", "8080:8080", "1935:1935", "8889:8889/udp">>,
            networks |-> <<"linto">>,
            volumes |-> <<DockerSock>> \o extra.volumes,
            command |-> Some(TraefikBaseCommand \o extra.command),
            healthcheck |-> Some(HealthcheckConfig(
                <<"CMD", "traefik", "healthcheck", "--ping">>, "10s", "5s", 3, "10s")) ])

_studio_mongodb_service ==
    ServiceDefinition(
      [ name |-> "studio-mongodb", category |-> "studio", image |-> "mongo:6.0.2",
        networks |-> <<"net_studio">>,
        volumes |-> <<VolumeMount("studio_mongodb_data", "/data/db", FALSE)>>,
        healthcheck |-> Some(MongoHealthcheck) ])

_studio_api_service(domain, image_tag, jwt_secret, jwt_refresh_secret, super_admin_email, super_admin_password, live_session_enabled, llm_enabled, stt_enabled) ==
    LET components == IF live_session_enabled
                      THEN "WebServer,MongoMigration,BrokerClient,IoHandler"
                      ELSE "WebServer,MongoMigration"
        networks == IF live_session_enabled
                    THEN <<"linto", "net_studio", "session_network">>
                    ELSE <<"linto", "net_studio">>
        base == [ DB_HOST |-> "studio-mongodb", DB_PORT |-> "27017",
                  DB_NAME |-> "conversations", DB_REQUIRE_LOGIN |-> "false",
                  CM_JWT_SECRET |-> jwt_secret, CM_REFRESH_SECRET |-> jwt_refresh_secret,
                  JWT_ALGORITHM |-> "HS256", SUPER_ADMIN_EMAIL |-> super_admin_email,
                  SUPER_ADMIN_PWD |-> super_admin_password,
                  CORS_API_WHITELIST |-> "https://" \o domain, CORS_ENABLED |-> "true",
                  WEBSERVER_HTTP_PORT |-> "80", NODE_ENV |-> "production",
                  COMPONENTS |-> components, AXIOS_SIZE_FILE_MAX |-> "1000000000",
                  EXPRESS_SIZE_FILE_MAX |-> "1gb", MAX_SUBTITLE_VERSION |-> "5",
                  DISABLE_DEFAULT_ORGANIZATION_CREATION |-> "false",
                  ORGANIZATION_DEFAULT_PERMISSIONS |-> "upload,summary,session",
                  LOCAL_AUTH_ENABLED |-> "true" ]
        stt == IF stt_enabled THEN [GATEWAY_SERVICES |-> "http://api-gateway"] ELSE EmptyDict
        llm == IF llm_enabled
               THEN [ LLM_GATEWAY_SERVICES |-> "http://llm-gateway-api",
                      LLM_GATEWAY_SERVICES_WS |-> "ws://llm-gateway-api/ws/results" ]
               ELSE EmptyDict
        live == IF live_session_enabled
                THEN [ BROKER_HOST |-> "session-broker", BROKER_PORT |-> "1883",
                       BROKER_PROTOCOL |-> "mqtt", BROKER_KEEPALIVE |-> "60",
                       SESSION_API_ENDPOINT |-> "http://session-api/v1" ]
                ELSE EmptyDict
    IN  ServiceDefinition(
          [ name |-> "studio-api", category |-> "studio",
            image |-> "lintoai/studio-api:" \o image_tag,
            depends_on |-> <<"studio-mongodb">>, networks |-> networks,
            traefik_endpoint |-> "/cm-api", traefik_strip_prefix |-> TRUE,
            environment |-> Update(Update(Update(base, stt), llm), live),
            healthcheck |-> Some(WgetHealthcheck("30s", 3, "60s")) ])

_studio_frontend_service(domain, image_tag) ==
    ServiceDefinition(
      [ name |-> "studio-frontend", category |-> "studio",
        image |-> "lintoai/studio-frontend:" \o image_tag,
        depends_on |-> <<"studio-api">>, networks |-> <<"linto", "net_studio">>,
        traefik_endpoint |-> "/", traefik_strip_prefix |-> FALSE,
        environment |-> [ VUE_APP_CM_API |-> "https://" \o domain \o "/cm-api",
                          VUE_APP_WS_URL |-> "wss://" \o domain \o "/ws" ] ])

_studio_websocket_service(domain, image_tag, jwt_secret) ==
    ServiceDefinition(
      [ name |-> "studio-websocket", category |-> "studio",
        image |-> "lintoai/studio-websocket:" \o image_tag,
        depends_on |-> <<"studio-api">>, networks |-> <<"linto", "net_studio">>,
        traefik_endpoint |-> "/ws", traefik_strip_prefix |-> TRUE,
        environment |-> [ CM_API_URL |-> "http://studio-api:80",
                          CM_JWT_SECRET |-> jwt_secret, NODE_ENV |-> "production" ] ])

_stt_mongo_service ==
    ServiceDefinition(
      [ name |-> "stt-mongo", category |-> "stt", image |-> "mongo:6.0.2",
        networks |-> <<"net_stt_services">>,
        volumes |-> <<VolumeMount("stt_mongodb_data", "/data/db", FALSE)>>,
        healthcheck |-> Some(MongoHealthcheck) ])

RedisHealthcheck == HealthcheckConfig(<<"CMD", "redis-cli", "ping">>, "30s", "10s", 3, "10s")

_task_broker_redis_service(redis_password) ==
    ServiceDefinition(
      [ name |-> "task-broker-redis", category |-> "stt", image |-> "redis:7",
        networks |-> <<"task_broker_services">>,
        command |-> Some(<<"redis-server", "--requirepass", redis_password>>),
        volumes |-> <<VolumeMount("task_broker_redis_data", "/data", FALSE)>>,
        healthcheck |-> Some(RedisHealthcheck) ])

_stt_whisper_service(image_tag, redis_password) ==
    LET service_name == "stt-all-whisper-v3-turbo"
    IN  ServiceDefinition(
          [ name |-> service_name, category |-> "stt",
            image |-> "lintoai/linto-transcription-service:" \o image_tag,
            depends_on |-> <<"task-broker-redis", "stt-mongo", "api-gateway">>,
            networks |-> <<"linto", "net_stt_services", "task_broker_services">>,
            traefik_endpoint |-> "/" \o service_name, traefik_strip_prefix |-> TRUE,
            environment |->
              [ SERVICES_BROKER |-> "redis://task-broker-redis:6379",
                BROKER_PASS |-> redis_password, MONGO_HOST |-> "stt-mongo",
                MONGO_PORT |-> "27017", SERVICE_NAME |-> service_name, LANGUAGE |-> "*",
                CONCURRENCY |-> "2", GATEWAY_SERVICE_BASE_URL |-> "http://api-gateway",
                GATEWAY_PROXY_PATH |-> "/" \o service_name,
                GATEWAY_DESCRIPTION |-> "{\"en\": \"" \o service_name \o "\", \"fr\": \""
                                          \o service_name \o "\"}",
                PROXIED_SERVICE_BASE_URL |-> "http://" \o service_name,
                REGISTRATION_MODE |-> "DOCKER", RESOLVE_POLICY |-> "ANY",
                ACCOUSTIC |-> "1", MODEL_QUALITY |-> "1", SECURITY_LEVEL |-> "0",
                MODEL_TYPE |-> "whisper", DIARIZATION_DEFAULT |-> "false",
                WEBSERVER_HTTP_PORT |-> "80", SWAGGER_PREFIX |-> "/" \o service_name,
                SWAGGER_URLS |-> "/" \o service_name ],
            healthcheck |-> Some(WgetHealthcheck("15s", 4, "180s")) ])

_stt_whisper_workers_service(image_tag, redis_password) ==
    ServiceDefinition(
      [ name |-> "stt-whisper-workers", category |-> "stt",
        image |-> "lintoai/linto-stt-whisper:" \o image_tag,
        depends_on |-> <<"task-broker-redis">>,
        networks |-> <<"net_stt_services", "task_broker_services">>,
        environment |->
          [ SERVICES_BROKER |-> "redis://task-broker-redis:6379",
            BROKER_PASS |-> redis_password, SERVICE_NAME |-> "stt-all-whisper-v3-turbo",
            MODEL |-> "large-v3-turbo", LANGUAGE |-> "*", DEVICE |-> "cpu",
            CONCURRENCY |-> "1", SECURITY_LEVEL |-> "0" ] ])

_diarization_pyannote_service(image_tag, redis_password) ==
    ServiceDefinition(
      [ name |-> "diarization-pyannote", category |-> "stt",
        image |-> "lintoai/linto-diarization-pyannote:" \o image_tag,
        depends_on |-> <<"task-broker-redis">>,
        networks |-> <<"net_stt_services", "task_broker_services">>,
        environment |->
          [ SERVICES_BROKER |-> "redis://task-broker-redis:6379",
            BROKER_PASS |-> redis_password, SERVICE_NAME |-> "diarization",
            DEVICE |-> "cpu", CONCURRENCY |-> "1" ] ])

PgHealthcheck(user, db) ==
    HealthcheckConfig(<<"CMD-SHELL", "pg_isready -U " \o user \o " -d " \o db>>,
                      "30s", "10s", 3, "30s")

_session_postgres_service(password) ==
    ServiceDefinition(
      [ name |-> "session-postgres", category |-> "live", image |-> "postgres:15-alpine",
        networks |-> <<"session_network", "net_studio">>,
        volumes |-> <<VolumeMount("session_postgres_data", "/var/lib/postgresql/data", FALSE)>>,
        environment |-> [ POSTGRES_DB |-> "session_DB", POSTGRES_USER |-> "session_user",
                          POSTGRES_PASSWORD |-> password ],
        deploy |-> Some(DeployConfig([placement_constraints |-> <<"node.role==manager">>])),
        healthcheck |-> Some(PgHealthcheck("session_user", "session_DB")) ])

_session_postgres_migration_service(image_tag, password) ==
    ServiceDefinition(
      [ name |-> "session-postgres-migration", category |-> "live",
        image |-> "lintoai/studio-plugins-migration:" \o image_tag,
        depends_on |-> <<"session-postgres">>, networks |-> <<"session_network">>,
        environment |-> [ DB_HOST |-> "session-postgres", DB_PORT |-> "5432",
                          DB_NAME |-> "session_DB", DB_USER |-> "session_user",
                          DB_PASSWORD |-> password, NODE_ENV |-> "production" ],
        restart |-> "no",
        deploy |-> Some(DeployConfig(
                          [restart_policy |-> Some(RestartPolicy("on-failure"))])) ])

_session_broker_service ==
    ServiceDefinition(
      [ name |-> "session-broker", category |-> "live", image |-> "eclipse-mosquitto:2",
        networks |-> <<"session_network", "net_studio">>,
        command |-> Some("mosquitto -c /mosquitto-no-auth.conf"),
        expose |-> <<"1883">>,
        healthcheck |-> Some(HealthcheckConfig(
            <<"CMD-SHELL", "mosquitto_sub -t '$SYS/#' -C 1 -W 3 || exit 1">>,
            "30s", "10s", 3, "10s")) ])

BrokerEnv ==
    [ BROKER_HOST |-> "session-broker", BROKER_PORT |-> "1883",
      BROKER_PROTOCOL |-> "mqtt", BROKER_KEEPALIVE |-> "60" ]

StreamingProxyEnv(domain) ==
    [ STREAMING_PASSPHRASE |-> "false",
      STREAMING_PROXY_RTMP_HOST |-> domain, STREAMING_PROXY_RTMP_TCP_PORT |-> "1935",
      STREAMING_PROXY_SRT_HOST |-> domain, STREAMING_PROXY_SRT_UDP_PORT |-> "8889",
      STREAMING_PROXY_WS_HOST |-> domain, STREAMING_PROXY_WS_TCP_PORT |-> "443",
      STREAMING_WS_SECURE |-> "true", LOG_FORMAT |-> "text", LOG_LEVEL |-> "debug" ]

_session_api_service(domain, image_tag, session_postgres_password, session_crypt_key) ==
    ServiceDefinition(
      [ name |-> "session-api", category |-> "live",
        image |-> "lintoai/studio-plugins-sessionapi:" \o image_tag,
        depends_on |-> <<"session-postgres", "session-broker">>,
        networks |-> <<"session_network", "linto">>,
        traefik_endpoint |-> "/session-api", traefik_strip_prefix |-> TRUE,
        expose |-> <<"80">>,
        environment |->
          BrokerEnv @@ StreamingProxyEnv(domain) @@
          [ DB_HOST |-> "session-postgres", DB_PORT |-> "5432", DB_NAME |-> "session_DB",
            DB_USER |-> "session_user", DB_PASSWORD |-> session_postgres_password,
            SESSION_API_BASE_PATH |-> "/", SESSION_API_WEBSERVER_HTTP_PORT |-> "80",
            STREAMING_HOST |-> "session-transcriber",
            SECURITY_CRYPT_KEY |-> session_crypt_key ] ])

_session_scheduler_service(image_tag, session_postgres_password) ==
    ServiceDefinition(
      [ name |-> "session-scheduler", category |-> "live",
        image |-> "lintoai/studio-plugins-scheduler:" \o image_tag,
        depends_on |-> <<"session-postgres", "session-broker">>,
        networks |-> <<"session_network", "net_studio">>,
        environment |->
          BrokerEnv @@
          [ DB_HOST |-> "session-postgres", DB_PORT |-> "5432", DB_NAME |-> "session_DB",
            DB_USER |-> "session_user", DB_PASSWORD |-> session_postgres_password,
            LOG_FORMAT |-> "text", LOG_LEVEL |-> "debug",
            SCHEDULER_WEBSERVER_HTTP_PORT |-> "80" ] ])

\* A label "a.b.c=v" is kept as its dotted key path and its value.  The
\* backquote of traefik's rule syntax is written as a single quote.
Label(key, value) == [key |-> key, value |-> value]

_session_transcriber_service(domain, image_tag, replicas, session_crypt_key) ==
    ServiceDefinition(
      [ name |-> "session-transcriber", category |-> "live",
        image |-> "lintoai/studio-plugins-transcriber:" \o image_tag,
        depends_on |-> <<"session-broker">>, networks |-> <<"linto", "session_network">>,
        traefik_endpoint |-> "/transcriber-ws", traefik_strip_prefix |-> TRUE,
        traefik_server_port |-> 8080,
        expose |-> <<"8889/udp", "1935", "8080">>,
        volumes |-> <<VolumeMount("session_audio_data", "/session_audio", FALSE)>>,
        environment |->
          BrokerEnv @@ StreamingProxyEnv(domain) @@
          [ AUDIO_STORAGE_PATH |-> "/session_audio", STREAMING_PROTOCOLS |-> "SRT,RTMP,WS",
            STREAMING_SRT_MODE |-> "listener", STREAMING_SRT_UDP_PORT |-> "8889",
            STREAMING_RTMP_TCP_PORT |-> "1935", STREAMING_RTMP_SECURE |-> "false",
            STREAMING_WS_TCP_PORT |-> "8080", STREAMING_WS_ENDPOINT |-> "transcriber-ws",
            STREAMING_HEALTHCHECK_TCP |-> "9999",
            SECURITY_CRYPT_KEY |-> session_crypt_key ],
        deploy |-> Some(DeployConfig([replicas |-> replicas])),
        extra_labels |->
          << Label(<<"traefik", "udp", "routers", "session-transcriber-srt", "entrypoints">>, "srt"),
             Label(<<"traefik", "udp", "routers", "session-transcriber-srt", "service">>,
                   "session-transcriber-srt"),
             Label(<<"traefik", "udp", "services", "session-transcriber-srt", "loadbalancer",
                     "server", "port">>, "8889"),
             Label(<<"traefik", "tcp", "routers", "session-transcriber-rtmp", "entrypoints">>, "rtmp"),
             Label(<<"traefik", "tcp", "routers", "session-transcriber-rtmp", "rule">>,
                   "HostSNI('*')"),
             Label(<<"traefik", "tcp", "routers", "session-transcriber-rtmp", "service">>,
                   "session-transcriber-rtmp"),
             Label(<<"traefik", "tcp", "services", "session-transcriber-rtmp", "loadbalancer",
                     "server", "port">>, "1935") >> ])

_stt_whisper_streaming_service(image_tag, use_gpu) ==
    ServiceDefinition(
      [ name |-> "stt-whisper-streaming", category |-> "live",
        image |-> "lintoai/linto-stt-whisper:" \o image_tag,
        networks |-> <<"session_network">>,
        environment |->
          [ SERVICE_MODE |-> "websocket", MODEL |-> "large-v3-turbo", LANGUAGE |-> "*",
            DEVICE |-> IF use_gpu THEN "cuda" ELSE "cpu", VAD |-> "true",
            STREAMING_MIN_CHUNK_SIZE |-> "0.5", STREAMING_BUFFER_TRIMMING_SEC |-> "8",
            STREAMING_PAUSE_FOR_FINAL |-> "1.0" ],
        gpu_required |-> use_gpu ])

_stt_kaldi_french_streaming_service(image_tag) ==
    ServiceDefinition(
      [ name |-> "stt-kaldi-french-streaming", category |-> "live",
        image |-> "lintoai/linto-stt-kaldi:" \o image_tag,
        networks |-> <<"session_network">>,
        environment |-> [SERVICE_MODE |-> "websocket", LANGUAGE |-> "fr-FR"],
        gpu_required |-> FALSE ])

_stt_nemo_french_streaming_service(image_tag) ==
    ServiceDefinition(
      [ name |-> "stt-nemo-french-streaming", category |-> "live",
        image |-> "lintoai/linto-stt-nemo:" \o image_tag,
        networks |-> <<"session_network">>,
        environment |-> [SERVICE_MODE |-> "websocket", LANGUAGE |-> "fr-FR", DEVICE |-> "cuda"],
        gpu_required |-> TRUE ])

_stt_nemo_english_streaming_service(image_tag) ==
    ServiceDefinition(
      [ name |-> "stt-nemo-english-streaming", category |-> "live",
        image |-> "lintoai/linto-stt-nemo:" \o image_tag,
        networks |-> <<"session_network">>,
        environment |-> [SERVICE_MODE |-> "websocket", LANGUAGE |-> "en-US", DEVICE |-> "cuda"],
        gpu_required |-> TRUE ])

_stt_kyutai_streaming_service(image_tag, gpu_architecture) ==
    LET full_tag == image_tag \o "-" \o gpu_architecture
    IN  ServiceDefinition(
          [ name |-> "stt-kyutai-streaming", category |-> "live",
            image |-> "lintoai/kyutai-moshi-stt-server-cuda:" \o full_tag,
            networks |-> <<"session_network">>,
            environment |-> [DEVICE |-> "cuda"],
            gpu_required |-> TRUE ])

\* The result of a call that may raise: [ok, msg, value].
Returned(v) == [ok |-> TRUE, msg |-> "", value |-> v]
Raised(msg) == [ok |-> FALSE, msg |-> msg, value |-> <<>>]

get_streaming_stt_service(variant, image_tag, gpu_architecture) ==
    IF variant = "whisper" THEN Returned(_stt_whisper_streaming_service(image_tag, TRUE))
    ELSE IF variant = "kaldi-french" THEN Returned(_stt_kaldi_french_streaming_service(image_tag))
    ELSE IF variant = "nemo-french" THEN Returned(_stt_nemo_french_streaming_service(image_tag))
    ELSE IF variant = "nemo-english" THEN Returned(_stt_nemo_english_streaming_service(image_tag))
    ELSE IF variant = "kyutai"
    THEN IF gpu_architecture = None THEN Raised("Kyutai requires gpu_architecture")
         ELSE Returned(_stt_kyutai_streaming_service(image_tag, gpu_architecture))
    ELSE Raised("Unknown streaming STT variant: " \o variant)

_llm_postgres_service(password) ==
    ServiceDefinition(
      [ name |-> "llm-postgres", category |-> "llm", image |-> "postgres:15-alpine",
        networks |-> <<"net_llm_services">>,
        volumes |-> <<VolumeMount("llm_postgres_data", "/var/lib/postgresql/data", FALSE)>>,
        environment |-> [ POSTGRES_DB |-> "llm_DB", POSTGRES_USER |-> "llm_user",
                          POSTGRES_PASSWORD |-> password ],
        deploy |-> Some(DeployConfig([placement_constraints |-> <<"node.role==manager">>])),
        healthcheck |-> Some(PgHealthcheck("llm_user", "llm_DB")) ])

_llm_redis_service(password) ==
    ServiceDefinition(
      [ name |-> "llm-redis", category |-> "llm",
        image |-> "redis/redis-stack-server:latest",
        networks |-> <<"net_llm_services">>,
        command |-> Some("/bin/sh -c 'redis-stack-server --requirepass " \o password \o "'"),
        volumes |-> <<VolumeMount("llm_redis_data", "/data", FALSE)>>,
        healthcheck |-> Some(RedisHealthcheck) ])

_llm_gateway_api_service(image_tag, openai_api_base, openai_api_token, redis_password) ==
    ServiceDefinition(
      [ name |-> "llm-gateway-api", category |-> "llm",
        image |-> "lintoai/llm-gateway:" \o image_tag,
        depends_on |-> <<"llm-redis">>, networks |-> <<"net_llm_services", "linto">>,
        traefik_endpoint |-> "/llm-gateway", traefik_strip_prefix |-> TRUE,
        command |-> Some("-m app --debug"),
        volumes |-> << VolumeMount("llm_models_cache", "/root/.cache", FALSE),
                       VolumeMount("./.linto/llm/hydra-conf", "/usr/src/.hydra-conf", FALSE),
                       VolumeMount("./.linto/llm/prompts", "/usr/src/prompts", FALSE) >>,
        environment |->
          [ SERVICES_BROKER |-> "redis://llm-redis:6379", BROKER_PASS |-> redis_password,
            OPENAI_API_BASE |-> openai_api_base, OPENAI_API_TOKEN |-> openai_api_token,
            HTTP_PORT |-> "80", CONCURRENCY |-> "1", SERVICE_NAME |-> "LLM_Gateway",
            SWAGGER_PATH |-> "../document/swagger_llm_gateway.yml",
            SWAGGER_PREFIX |-> "/llm-gateway", SWAGGER_URL |-> "/llm-gateway",
            PYTHONUNBUFFERED |-> "1", TIMEOUT |-> "60",
            RESULT_DB_PATH |-> "./results.sqlite" ] ])

_llm_celery_worker_service(image_tag, redis_password, openai_api_base, openai_api_token) ==
    ServiceDefinition(
      [ name |-> "llm-celery-worker", category |-> "llm",
        image |-> "lintoai/llm-gateway:" \o image_tag,
        depends_on |-> <<"llm-redis", "llm-postgres">>, networks |-> <<"net_llm_services">>,
        command |-> Some("celery -A app.celery.celery_app worker --loglevel=info"),
        environment |->
          [ SERVICES_BROKER |-> "redis://llm-redis:6379", BROKER_PASS |-> redis_password,
            OPENAI_API_BASE |-> openai_api_base, OPENAI_API_TOKEN |-> openai_api_token,
            PYTHONUNBUFFERED |-> "1", CONCURRENCY |-> "1" ] ])

_llm_gateway_frontend_service(domain, image_tag) ==
    ServiceDefinition(
      [ name |-> "llm-gateway-frontend", category |-> "llm",
        image |-> "lintoai/llm-gateway-frontend:" \o image_tag,
        depends_on |-> <<"llm-gateway-api">>, networks |-> <<"net_llm_services", "linto">>,
        traefik_endpoint |-> "/llm-admin", traefik_strip_prefix |-> FALSE,
        environment |-> [NEXT_PUBLIC_API_URL |-> "https://" \o domain \o "/llm-gateway"] ])

_vllm_service ==
    ServiceDefinition(
      [ name |-> "vllm-service", category |-> "llm", image |-> "vllm/vllm-openai:latest",
        networks |-> <<"net_llm_services", "linto">>,
        command |-> Some("--model casperhansen/llama-3-8b-instruct-awq --quantization awq --gpu-memory-utilization 0.65"),
        volumes |-> <<VolumeMount("vllm_models_cache", "/root/.cache/huggingface", FALSE)>>,
        environment |-> [NVIDIA_DRIVER_CAPABILITIES |-> "all", NVIDIA_VISIBLE_DEVICES |-> "0"],
        gpu_required |-> TRUE,
        deploy |-> Some(DeployConfig([placement_constraints |-> <<"node.labels.ip==ingress">>])) ])

get_studio_services ==
    <<"studio-mongodb", "studio-api", "studio-frontend", "studio-websocket">>

get_stt_services ==
    << "api-gateway", "stt-mongo", "task-broker-redis", "stt-all-whisper-v3-turbo",
       "stt-whisper-workers", "diarization-pyannote" >>

get_infra_services == <<"traefik">>

get_live_session_services ==
    << "session-postgres", "session-postgres-migration", "session-broker", "session-api",
       "session-scheduler", "session-transcriber" >>

get_llm_services ==
    << "llm-postgres", "llm-redis", "llm-gateway-api", "llm-celery-worker",
       "llm-gateway-frontend" >>

-----------------------------------------------------------------------------
(* backends/base.py *)

\* service_name.replace("-", "_") over the names of the catalog
replace_dash(service_name) ==
    CASE service_name = "api-gateway" -> "api_gateway"
      [] service_name = "studio-mongodb" -> "studio_mongodb"
      [] service_name = "studio-api" -> "studio_api"
      [] service_name = "studio-frontend" -> "studio_frontend"
      [] service_name = "studio-websocket" -> "studio_websocket"
      [] service_name = "stt-all-whisper-v3-turbo" -> "stt_all_whisper_v3_turbo"
      [] service_name = "session-api" -> "session_api"
      [] service_name = "session-transcriber" -> "session_transcriber"
      [] service_name = "llm-gateway-api" -> "llm_gateway_api"
      [] service_name = "llm-gateway-frontend" -> "llm_gateway_frontend"
      [] service_name = "vllm-service" -> "vllm_service"
      [] OTHER -> service_name

TlsLabels(router_name, tls_enabled, tls_mode) ==
    IF tls_enabled
    THEN <<Label(<<"traefik", "http", "routers", router_name, "tls">>, "true")>>
         \o IF tls_mode = "acme"
            THEN <<Label(<<"traefik", "http", "routers", router_name, "tls", "certresolver">>,
                         "leresolver")>>
            ELSE <<>>
    ELSE <<>>

generate_traefik_labels(service_name, endpoint, domain, strip_prefix, tls_enabled, tls_mode, server_port) ==
    LET router_name == replace_dash(service_name)
        entrypoint == IF tls_enabled THEN "websecure" ELSE "web"
        middleware_name == router_name \o "_strip"
        labels ==
          << Label(<<"traefik", "enable">>, "true"),
             Label(<<"traefik", "http", "routers", router_name, "entrypoints">>, entrypoint),
             Label(<<"traefik", "http", "services", router_name, "loadbalancer", "server",
                     "port">>, ToString(server_port)) >>
        rule ==
          IF endpoint = "/"
          THEN << Label(<<"traefik", "http", "routers", router_name, "rule">>,
                        "Host('" \o domain \o "')"),
                  Label(<<"traefik", "http", "routers", router_name, "priority">>, "1") >>
          ELSE << Label(<<"traefik", "http", "routers", router_name, "rule">>,
                        "Host('" \o domain \o "') && PathPrefix('" \o endpoint \o "')") >>
        strip ==
          IF strip_prefix /\ endpoint # "/"
          THEN << Label(<<"traefik", "http", "middlewares", middleware_name, "stripPrefix",
                          "prefixes">>, endpoint),
                  Label(<<"traefik", "http", "routers", router_name, "middlewares">>,
                        middleware_name) >>
          ELSE <<>>
    IN  labels \o rule \o TlsLabels(router_name, tls_enabled, tls_mode) \o strip

\* svc[key] = value if cond
Entry(cond, key, value) == IF cond THEN key :> value ELSE EmptyDict

\* f"{v.source}:{v.target}{':ro' if v.read_only else ''}"
VolumeString(v) == v.source \o ":" \o v.target \o (IF v.read_only THEN ":ro" ELSE "")

VolumeStrings(volumes) == [i \in 1..Len(volumes) |-> VolumeString(volumes[i])]

\* labels of the router of the service followed by its extra labels
ServiceLabels(service, domain, tls_mode) ==
    (IF Truthy(service.traefik_endpoint)
     THEN generate_traefik_labels(service.name, service.traefik_endpoint, domain,
                                  service.traefik_strip_prefix, tls_mode # "off", tls_mode,
                                  service.traefik_server_port)
     ELSE <<>>)
    \o service.extra_labels

service_to_compose_dict(service, domain, tls_mode) ==
    LET labels == ServiceLabels(service, domain, tls_mode)
    IN  [image |-> service.image, restart |-> service.restart]
        @@ Entry(service.depends_on # <<>>, "depends_on", service.depends_on)
        @@ Entry(service.networks # <<>>, "networks", service.networks)
        @@ Entry(service.volumes # <<>>, "volumes", VolumeStrings(service.volumes))
        @@ Entry(DOMAIN service.environment # {}, "environment", service.environment)
        @@ Entry(service.ports # <<>>, "ports", service.ports)
        @@ Entry(service.expose # <<>>, "expose", service.expose)
        @@ Entry(service.command # <<>> /\ Len(service.command[1]) > 0, "command",
                 IF service.command = <<>> THEN <<>> ELSE service.command[1])
        @@ Entry(service.healthcheck # <<>>, "healthcheck",
                 IF service.healthcheck = <<>> THEN EmptyDict ELSE service.healthcheck[1])
        @@ Entry(labels # <<>>, "labels", labels)

DeploySection(d) ==
    [mode |-> d.mode, replicas |-> d.replicas]
    @@ Entry(d.placement_constraints # <<>>, "placement",
             [constraints |-> d.placement_constraints])
    @@ Entry(d.restart_policy # <<>>, "restart_policy",
             IF d.restart_policy = <<>> THEN EmptyDict
             ELSE LET rp == d.restart_policy[1]
                  IN  [condition |-> rp.condition]
                      @@ Entry(Truthy(rp.delay), "delay", rp.delay)
                      @@ Entry(Truthy(rp.max_attempts), "max_attempts", rp.max_attempts)
                      @@ Entry(Truthy(rp.window), "window", rp.window))

service_to_swarm_dict(service, domain, tls_mode) ==
    LET deploy == IF service.deploy # <<>> THEN DeploySection(service.deploy[1])
                  ELSE [mode |-> "replicated", replicas |-> 1]
        labels == ServiceLabels(service, domain, tls_mode)
                  \o (IF service.deploy # <<>> THEN service.deploy[1].labels ELSE <<>>)
    IN  [image |-> service.image]
        @@ Entry(service.networks # <<>>, "networks", service.networks)
        @@ Entry(service.volumes # <<>>, "volumes", VolumeStrings(service.volumes))
        @@ Entry(DOMAIN service.environment # {}, "environment", service.environment)
        @@ Entry(service.ports # <<>>, "ports", service.ports)
        @@ Entry(service.expose # <<>>, "expose", service.expose)
        @@ Entry(service.command # <<>> /\ Len(service.command[1]) > 0, "command",
                 IF service.command = <<>> THEN <<>> ELSE service.command[1])
        @@ Entry(service.healthcheck # <<>>, "healthcheck",
                 IF service.healthcheck = <<>> THEN EmptyDict ELSE service.healthcheck[1])
        @@ [deploy |-> deploy @@ Entry(labels # <<>>, "labels", labels)]

-----------------------------------------------------------------------------
(* backends/compose.py and backends/swarm.py *)

\* The two renderers build the same ServiceDefinitions, block by block, from
\* the same factory calls; they differ in the conversion and in the networks.

StudioServices(prof) ==
    << _studio_mongodb_service,
       _studio_api_service(prof.domain, prof.image_tag, OrEmpty(prof.jwt_secret),
                           OrEmpty(prof.jwt_refresh_secret), prof.super_admin_email,
                           OrEmpty(prof.super_admin_password),
                           prof.live_session_enabled, prof.llm_enabled,
                           prof.stt_enabled),
       _studio_frontend_service(prof.domain, prof.image_tag),
       _studio_websocket_service(prof.domain, prof.image_tag,
                                 OrEmpty(prof.jwt_secret)) >>

StudioVolumes == {"studio_mongodb_data"}

SttServices(prof) ==
    << _api_gateway_service(prof.image_tag),
       _stt_mongo_service,
       _task_broker_redis_service(OrEmpty(prof.redis_password)),
       _stt_whisper_service(prof.image_tag, OrEmpty(prof.redis_password)),
       _stt_whisper_workers_service(prof.image_tag, OrEmpty(prof.redis_password)),
       _diarization_pyannote_service(prof.image_tag, OrEmpty(prof.redis_password)) >>

SttVolumes == {"stt_mongodb_data", "task_broker_redis_data"}

\* for variant in profile.streaming_stt_variants: ... get_streaming_stt_service(...)
RECURSIVE StreamingServices(_, _, _)
StreamingServices(variants, image_tag, gpu_architecture) ==
    IF variants = <<>> THEN Returned(<<>>)
    ELSE LET head == get_streaming_stt_service(Head(variants), image_tag, gpu_architecture)
             rest == StreamingServices(Tail(variants), image_tag, gpu_architecture)
         IN  IF ~head.ok THEN head
             ELSE IF ~rest.ok THEN rest
             ELSE Returned(<<head.value>> \o rest.value)

LiveServices(prof) ==
    LET streaming == StreamingServices(prof.streaming_stt_variants, prof.image_tag,
                                       prof.kyutai_gpu_architecture)
    IN  IF ~streaming.ok THEN streaming
        ELSE Returned(
          << _session_postgres_service(OrEmpty(prof.session_postgres_password)),
             _session_postgres_migration_service(prof.image_tag,
                                                 OrEmpty(prof.session_postgres_password)),
             _session_broker_service,
             _session_api_service(prof.domain, prof.image_tag,
                                  OrEmpty(prof.session_postgres_password),
                                  OrEmpty(prof.session_crypt_key)),
             _session_scheduler_service(prof.image_tag,
                                        OrEmpty(prof.session_postgres_password)),
             _session_transcriber_service(prof.domain, prof.image_tag,
                                          prof.session_transcriber_replicas,
                                          OrEmpty(prof.session_crypt_key)) >>
          \o streaming.value)

LiveVolumes == {"session_postgres_data", "session_audio_data"}

\* variant: vllm-service is part of the LLM block whatever vllm_enabled is
VllmServices_Always(prof) == <<_vllm_service>>

\* if profile.vllm_enabled: services[vllm.name] = ...
VllmServices(prof) == IF prof.vllm_enabled THEN <<_vllm_service>> ELSE <<>>

LlmServices(prof) ==
    LET openai_api_base == IF prof.vllm_enabled /\ ~Truthy(prof.openai_api_base)
                           THEN "http://vllm-service:8000/v1"
                           ELSE prof.openai_api_base
    IN  << _llm_postgres_service(OrEmpty(prof.llm_postgres_password)),
           _llm_redis_service(OrEmpty(prof.llm_redis_password)),
           _llm_gateway_api_service(prof.image_tag, OrEmpty(openai_api_base),
                                    OrEmpty(prof.openai_api_token),
                                    OrEmpty(prof.llm_redis_password)),
           _llm_celery_worker_service(prof.image_tag, OrEmpty(prof.llm_redis_password),
                                      OrEmpty(openai_api_base),
                                      OrEmpty(prof.openai_api_token)),
           _llm_gateway_frontend_service(prof.domain, prof.image_tag) >>
        \o VllmServices(prof)

LlmVolumes(prof) ==
    {"llm_postgres_data", "llm_redis_data", "llm_models_cache"}
    \cup IF prof.vllm_enabled THEN {"vllm_models_cache"} ELSE {}

\* variant: the streaming services are built before the live-session flag is
\* looked at
RenderedServices_StreamingFirst(prof) ==
    LET live == LiveServices(prof)
    IN  IF ~live.ok THEN live
        ELSE Returned(
          <<_traefik_service(prof.domain, prof.tls_mode)>>
          \o (IF prof.studio_enabled THEN StudioServices(prof) ELSE <<>>)
          \o (IF prof.stt_enabled THEN SttServices(prof) ELSE <<>>)
          \o (IF prof.live_session_enabled THEN live.value ELSE <<>>)
          \o (IF prof.llm_enabled THEN LlmServices(prof) ELSE <<>>))

\* traefik, then the block of every enabled flag, in the order of the code
RenderedServices(prof) ==
    LET live == IF prof.live_session_enabled THEN LiveServices(prof) ELSE Returned(<<>>)
    IN  IF ~live.ok THEN live
        ELSE Returned(
          <<_traefik_service(prof.domain, prof.tls_mode)>>
          \o (IF prof.studio_enabled THEN StudioServices(prof) ELSE <<>>)
          \o (IF prof.stt_enabled THEN SttServices(prof) ELSE <<>>)
          \o live.value
          \o (IF prof.llm_enabled THEN LlmServices(prof) ELSE <<>>))

RenderedVolumes(prof) ==
    LET names == (IF prof.studio_enabled THEN StudioVolumes ELSE {})
                 \cup (IF prof.stt_enabled THEN SttVolumes ELSE {})
                 \cup (IF prof.live_session_enabled THEN LiveVolumes ELSE {})
                 \cup (IF prof.llm_enabled THEN LlmVolumes(prof) ELSE {})
    IN  [n \in names |-> EmptyDict]

\* services[svc.name] = dict of svc, a later assignment replacing an earlier one
ComposeServices(defs, domain, tls_mode) ==
    [ n \in {defs[i].name : i \in DOMAIN defs} |->
        LET last == CHOOSE i \in DOMAIN defs :
                      /\ defs[i].name = n
                      /\ \A j \in DOMAIN defs : defs[j].name = n => j <= i
        IN  service_to_compose_dict(defs[last], domain, tls_mode) ]

SwarmServices(defs, domain, tls_mode) ==
    [ n \in {defs[i].name : i \in DOMAIN defs} |->
        LET last == CHOOSE i \in DOMAIN defs :
                      /\ defs[i].name = n
                      /\ \A j \in DOMAIN defs : defs[j].name = n => j <= i
        IN  service_to_swarm_dict(defs[last], domain, tls_mode) ]

ComposeNetworks(prof) ==
    [linto |-> [driver |-> "bridge"]]
    @@ (IF prof.studio_enabled THEN STUDIO_NETWORKS ELSE EmptyDict)
    @@ (IF prof.stt_enabled THEN STT_NETWORKS ELSE EmptyDict)
    @@ (IF prof.live_session_enabled THEN SESSION_NETWORKS ELSE EmptyDict)
    @@ (IF prof.llm_enabled THEN LLM_NETWORKS ELSE EmptyDict)

Overlay(nets) == [n \in DOMAIN nets |-> [driver |-> "overlay"]]

\* variant: the LLM block declares no network in the stack
SwarmNetworks_NoLlm(prof) ==
    [linto |-> [driver |-> "overlay", external |-> TRUE]]
    @@ (IF prof.studio_enabled THEN Overlay(STUDIO_NETWORKS) ELSE EmptyDict)
    @@ (IF prof.stt_enabled THEN Overlay(STT_NETWORKS) ELSE EmptyDict)
    @@ (IF prof.live_session_enabled THEN Overlay(SESSION_NETWORKS) ELSE EmptyDict)

SwarmNetworks(prof) ==
    [linto |-> [driver |-> "overlay", external |-> TRUE]]
    @@ (IF prof.studio_enabled THEN Overlay(STUDIO_NETWORKS) ELSE EmptyDict)
    @@ (IF prof.stt_enabled THEN Overlay(STT_NETWORKS) ELSE EmptyDict)
    @@ (IF prof.live_session_enabled THEN Overlay(SESSION_NETWORKS) ELSE EmptyDict)
    @@ (IF prof.llm_enabled THEN Overlay(LLM_NETWORKS) ELSE EmptyDict)

render_compose(p, draw) ==
    LET gen == generate_secrets(p, draw)
        prof == gen.value
        defs == RenderedServices(prof)
    IN  IF ~gen.ok THEN Raised(gen.msg)
        ELSE IF ~defs.ok THEN Raised(defs.msg)
        ELSE Returned([ version |-> "3.8",
                        services |-> ComposeServices(defs.value, prof.domain, prof.tls_mode),
                        networks |-> ComposeNetworks(prof),
                        volumes |-> RenderedVolumes(prof) ])

render_stack(p, draw) ==
    LET gen == generate_secrets(p, draw)
        prof == gen.value
        defs == RenderedServices(prof)
    IN  IF ~gen.ok THEN Raised(gen.msg)
        ELSE IF ~defs.ok THEN Raised(defs.msg)
        ELSE Returned([ version |-> "3.8",
                        services |-> SwarmServices(defs.value, prof.domain, prof.tls_mode),
                        networks |-> SwarmNetworks(prof),
                        volumes |-> RenderedVolumes(prof) ])

-----------------------------------------------------------------------------
(* backends/k3s.py *)

\* dict.get(key, default)
Get(d, key, default) == IF key \in DOMAIN d THEN d[key] ELSE default

\* variant: the override of service_tags is ignored
get_service_tag_NoOverride(prof, service_name) == prof.image_tag

get_service_tag(prof, service_name) == Get(prof.service_tags, service_name, prof.image_tag)

DatabaseTagDefaults ==
    "studio-mongo" :> "6.0.2" @@ "stt-mongo" :> "6.0.2" @@ "stt-redis" :> "7.4.0-v8"
    @@ "live-postgres" :> "15-alpine" @@ "live-mosquitto" :> "2"
    @@ "llm-postgres" :> "15-alpine" @@ "llm-redis" :> "7.4.0-v8"

get_database_tag(prof, db_name) ==
    LET tag == Get(prof.service_tags, "db-" \o db_name, None)
    IN  IF Truthy(tag) THEN tag ELSE Get(DatabaseTagDefaults, db_name, "latest")

get_llm_service_tag(prof, service_name) ==
    Get(prof.service_tags, "llm-" \o service_name, "latest")

\* str(b).lower()
BoolString(b) == IF b THEN "true" ELSE "false"

StorageValues(prof) ==
    Entry(Truthy(prof.k3s_database_host_path), "database",
          [hostPath |-> prof.k3s_database_host_path]
          @@ (IF Truthy(prof.k3s_database_node_selector)
              THEN [nodeSelector |-> prof.k3s_database_node_selector]
              ELSE IF Truthy(prof.k3s_database_node_role)
              THEN [nodeSelector |-> ("linto.ai/role" :> prof.k3s_database_node_role)]
              ELSE EmptyDict))
    @@ Entry(Truthy(prof.k3s_files_host_path), "files",
             [hostPath |-> prof.k3s_files_host_path])

generate_global_values(prof, create_certificate) ==
    LET tls_mode == prof.tls_mode
        tls_enabled == tls_mode # "off"
        tls == [enabled |-> tls_enabled, mode |-> tls_mode]
               @@ Entry(tls_enabled, "secretName", prof.k3s_tls_secret_name)
               @@ Entry(tls_enabled, "createCertificate", create_certificate)
               @@ Entry(tls_mode = "acme" /\ Truthy(prof.acme_email), "acmeEmail",
                        prof.acme_email)
    IN  [domain |-> prof.domain, imageTag |-> prof.image_tag, tls |-> tls]
        @@ Entry(Truthy(prof.k3s_storage_class), "storageClass", prof.k3s_storage_class)
        @@ Entry(Truthy(prof.k3s_database_host_path) \/ Truthy(prof.k3s_files_host_path),
                 "storage", StorageValues(prof))

\* values["studioApi"]["env"]: the initial keys, then the keys the enabled
\* integrations add
StudioApiEnv(prof, scheme) ==
    LET callback(path) == scheme \o "://" \o prof.domain \o path
        smtp == IF prof.smtp_enabled
                THEN [ SMTP_HOST |-> OrEmpty(prof.smtp_host),
                       SMTP_PORT |-> ToString(prof.smtp_port),
                       SMTP_SECURE |-> BoolString(prof.smtp_secure),
                       SMTP_REQUIRE_TLS |-> BoolString(prof.smtp_require_tls),
                       SMTP_AUTH |-> OrEmpty(prof.smtp_auth),
                       NO_REPLY_EMAIL |-> OrEmpty(prof.smtp_no_reply_email) ]
                ELSE EmptyDict
        google == IF prof.oidc_google_enabled
                  THEN [ OIDC_GOOGLE_ENABLED |-> "true",
                         GOOGLE_CLIENT_ID |-> OrEmpty(prof.oidc_google_client_id),
                         GOOGLE_OIDC_CALLBACK_URI |-> callback("/cm-api/auth/oidc/google/cb") ]
                  ELSE EmptyDict
        github == IF prof.oidc_github_enabled
                  THEN [ OIDC_GITHUB_ENABLED |-> "true",
                         GITHUB_CLIENT_ID |-> OrEmpty(prof.oidc_github_client_id),
                         GITHUB_OIDC_CALLBACK_URI |-> callback("/cm-api/auth/oidc/github/cb") ]
                  ELSE EmptyDict
        native == IF Truthy(prof.oidc_native_type)
                  THEN [ OIDC_TYPE |-> prof.oidc_native_type,
                         OIDC_CLIENT_ID |-> OrEmpty(prof.oidc_native_client_id),
                         OIDC_CALLBACK_URI |-> callback("/cm-api/auth/oidc/cb"),
                         OIDC_URL |-> OrEmpty(prof.oidc_native_url),
                         OIDC_SCOPE |-> prof.oidc_native_scope ]
                       @@ Entry(Truthy(prof.smtp_no_reply_email) /\ ~prof.smtp_enabled,
                                "NO_REPLY_EMAIL", prof.smtp_no_reply_email)
                  ELSE EmptyDict
    IN  [ SUPER_ADMIN_EMAIL |-> prof.super_admin_email,
          SUPER_ADMIN_PWD |-> OrEmpty(prof.super_admin_password),
          CM_JWT_SECRET |-> OrEmpty(prof.jwt_secret),
          CM_REFRESH_SECRET |-> OrEmpty(prof.jwt_refresh_secret) ]
        @@ Entry(prof.stt_enabled, "GATEWAY_SERVICES", "http://linto-stt-api-gateway:80")
        @@ Entry(prof.llm_enabled, "LLM_GATEWAY_SERVICES", "http://linto-llm-llm-api:80")
        @@ smtp @@ google @@ github @@ native

\* variant: the SMTP password is left out of studioApi.secrets
SmtpSecret_Dropped(prof) == EmptyDict

\* values["studioApi"]["secrets"]["SMTP_PSWD"]
SmtpSecret(prof) ==
    Entry(prof.smtp_enabled, "SMTP_PSWD", OrEmpty(prof.smtp_password))

\* values["studioApi"]["secrets"]
StudioApiSecrets(prof) ==
    SmtpSecret(prof)
    @@ Entry(prof.oidc_google_enabled, "GOOGLE_CLIENT_SECRET",
             OrEmpty(prof.oidc_google_client_secret))
    @@ Entry(prof.oidc_github_enabled, "GITHUB_CLIENT_SECRET",
             OrEmpty(prof.oidc_github_client_secret))
    @@ Entry(Truthy(prof.oidc_native_type), "OIDC_CLIENT_SECRET",
             OrEmpty(prof.oidc_native_client_secret))

\* variant: https whatever the TLS mode
UrlScheme_AlwaysHttps(tls_mode) == "https"

\* scheme = "https" if tls_mode != "off" else "http"
UrlScheme(tls_mode) == IF tls_mode # "off" THEN "https" ELSE "http"

generate_studio_values(prof) ==
    LET scheme == UrlScheme(prof.tls_mode)
    IN  [ global |-> generate_global_values(prof, TRUE),
          studioApi |->
            [ enabled |-> TRUE, replicas |-> 1,
              image |-> [tag |-> get_service_tag(prof, "studio-api")],
              env |-> StudioApiEnv(prof, scheme),
              resources |-> [limits |-> [cpu |-> "2", memory |-> "8Gi"]],
              secrets |-> StudioApiSecrets(prof) ],
          studioFrontend |->
            [ enabled |-> TRUE, replicas |-> 1,
              image |-> [tag |-> get_service_tag(prof, "studio-frontend")] ],
          studioWebsocket |->
            [ enabled |-> TRUE, replicas |-> 1,
              image |-> [tag |-> get_service_tag(prof, "studio-websocket")],
              env |-> [CM_JWT_SECRET |-> OrEmpty(prof.jwt_secret)] ],
          mongodb |->
            [ enabled |-> TRUE,
              image |-> [tag |-> get_database_tag(prof, "studio-mongo")],
              persistence |-> [enabled |-> TRUE, size |-> "10Gi"]
                              @@ Entry(Truthy(prof.k3s_storage_class), "storageClass",
                                       prof.k3s_storage_class),
              resources |-> [limits |-> EmptyDict] ] ]

\* values[...]["persistence"]
Persistence(prof, size) ==
    [enabled |-> TRUE, size |-> size]
    @@ Entry(Truthy(prof.k3s_storage_class), "storageClass", prof.k3s_storage_class)

\* variant: a flat replicas count whatever the number of GPUs
GpuReplicas_Flat(gpu_enabled, gpu_count) == [replicas |-> 1, resources |-> EmptyDict]

\* replicasPerGpu for several GPUs, replicas and empty resources otherwise
GpuReplicas(gpu_enabled, gpu_count) ==
    IF gpu_enabled /\ gpu_count > 1
    THEN [replicasPerGpu |-> [i \in 1..gpu_count |-> 1]]
    ELSE [replicas |-> 1, resources |-> EmptyDict]

generate_stt_values(prof) ==
    LET gpu_enabled == prof.gpu_mode # "none"
        gpu_count == IF gpu_enabled THEN prof.gpu_count ELSE 0
        device == IF gpu_enabled THEN "cuda" ELSE "cpu"
    IN  [ global |-> generate_global_values(prof, FALSE),
          apiGateway |->
            [ enabled |-> TRUE, replicas |-> 1,
              image |-> [tag |-> get_service_tag(prof, "linto-api-gateway")],
              env |-> [COMPONENTS |-> "ApiWatcher,WebServer"],
              ingress |-> [enabled |-> FALSE] ],
          whisper |->
            [ enabled |-> TRUE, replicas |-> 1,
              image |-> [tag |-> get_service_tag(prof, "linto-transcription-service")],
              env |-> [BROKER_PASS |-> OrEmpty(prof.redis_password)],
              ingress |-> [enabled |-> FALSE] ],
          whisperWorkers |->
            [ enabled |-> TRUE,
              image |-> [tag |-> get_service_tag(prof, "linto-stt-whisper")],
              env |-> [BROKER_PASS |-> OrEmpty(prof.redis_password), DEVICE |-> device] ]
            @@ GpuReplicas(gpu_enabled, gpu_count),
          diarization |->
            [ enabled |-> TRUE,
              image |-> [tag |-> get_service_tag(prof, "linto-diarization-pyannote")],
              env |-> [ SERVICE_NAME |-> "stt-diarization-pyannote",
                        QUEUE_NAME |-> "diarization-pyannote",
                        BROKER_PASS |-> OrEmpty(prof.redis_password), DEVICE |-> device ] ]
            @@ GpuReplicas(gpu_enabled, gpu_count),
          redis |->
            [ enabled |-> TRUE, image |-> [tag |-> get_database_tag(prof, "stt-redis")],
              password |-> OrEmpty(prof.redis_password),
              persistence |-> Persistence(prof, "5Gi"),
              resources |-> [limits |-> EmptyDict] ],
          mongodb |->
            [ enabled |-> TRUE, image |-> [tag |-> get_database_tag(prof, "stt-mongo")],
              persistence |-> Persistence(prof, "10Gi"),
              resources |-> [limits |-> EmptyDict] ] ]

variant_image_map ==
    "whisper" :> "linto-stt-whisper" @@ "kaldi-french" :> "linto-stt-kaldi"
    @@ "nemo-french" :> "linto-stt-nemo" @@ "nemo-english" :> "linto-stt-nemo"
    @@ "kyutai" :> "kyutai-moshi-stt-server-cuda"

\* variant.value.replace("-", "_")
VariantKey(variant) ==
    CASE variant = "kaldi-french" -> "kaldi_french"
      [] variant = "nemo-french" -> "nemo_french"
      [] variant = "nemo-english" -> "nemo_english"
      [] OTHER -> variant

GpuStreamingVariants == {"whisper", "nemo-french", "nemo-english", "kyutai"}

StreamingVariantConfig(prof, variant, gpu_enabled) ==
    [ enabled |-> TRUE, replicas |-> 1,
      image |-> [tag |-> get_service_tag(prof, Get(variant_image_map, variant,
                                                     "linto-stt-whisper"))] ]
    @@ Entry(variant \in GpuStreamingVariants /\ gpu_enabled, "resources",
             [ limits |-> ("nvidia.com/gpu" :> "1"), requests |-> ("nvidia.com/gpu" :> "1") ])
    @@ Entry(variant = "kyutai" /\ Truthy(prof.kyutai_gpu_architecture), "gpuArchitecture",
             prof.kyutai_gpu_architecture)

generate_live_values(prof) ==
    LET gpu_enabled == prof.gpu_mode # "none"
        variants == prof.streaming_stt_variants
    IN  [ global |-> generate_global_values(prof, FALSE),
          migration |->
            [ enabled |-> TRUE,
              image |-> [tag |-> get_service_tag(prof, "studio-plugins-migration")] ],
          sessionApi |->
            [ enabled |-> TRUE, replicas |-> 1,
              image |-> [tag |-> get_service_tag(prof, "studio-plugins-sessionapi")],
              env |-> [ DB_PASSWORD |-> OrEmpty(prof.session_postgres_password),
                        SECURITY_CRYPT_KEY |-> OrEmpty(prof.session_crypt_key) ],
              resources |-> [limits |-> [cpu |-> "2", memory |-> "8Gi"]] ],
          sessionScheduler |->
            [ enabled |-> TRUE, replicas |-> 1,
              image |-> [tag |-> get_service_tag(prof, "studio-plugins-scheduler")],
              env |-> [DB_PASSWORD |-> OrEmpty(prof.session_postgres_password)] ],
          sessionTranscriber |->
            [ enabled |-> TRUE, replicas |-> prof.session_transcriber_replicas,
              image |-> [tag |-> get_service_tag(prof, "studio-plugins-transcriber")],
              env |-> [SECURITY_CRYPT_KEY |-> OrEmpty(prof.session_crypt_key)],
              resources |-> [limits |-> [cpu |-> "8", memory |-> "8Gi"]] ],
          postgres |->
            [ enabled |-> TRUE, image |-> [tag |-> get_database_tag(prof, "live-postgres")],
              password |-> OrEmpty(prof.session_postgres_password),
              persistence |-> Persistence(prof, "10Gi"),
              resources |-> [limits |-> EmptyDict] ],
          broker |->
            [ enabled |-> TRUE, image |-> [tag |-> get_database_tag(prof, "live-mosquitto")],
              resources |-> [limits |-> EmptyDict] ],
          streamingStt |->
            [ k \in {VariantKey(variants[i]) : i \in DOMAIN variants} |->
                LET last == CHOOSE i \in DOMAIN variants :
                              /\ VariantKey(variants[i]) = k
                              /\ \A j \in DOMAIN variants :
                                   VariantKey(variants[j]) = k => j <= i
                IN  StreamingVariantConfig(prof, variants[last], gpu_enabled) ] ]

generate_llm_values(prof) ==
    LET gpu_enabled == prof.gpu_mode # "none"
        protocol == IF prof.tls_mode # "off" THEN "https" ELSE "http"
        gpu == [limits |-> ("nvidia.com/gpu" :> "1"), requests |-> ("nvidia.com/gpu" :> "1")]
    IN  [ global |-> generate_global_values(prof, FALSE),
          llmGatewayApi |->
            [ enabled |-> TRUE, replicas |-> 1,
              image |-> [tag |-> get_service_tag(prof, "llm-gateway")],
              env |-> [ REDIS_PASSWORD |-> OrEmpty(prof.llm_redis_password),
                        ENCRYPTION_KEY |-> OrEmpty(prof.llm_encryption_key),
                        DEBUG |-> "false",
                        CORS_ORIGINS |-> protocol \o "://" \o prof.domain ] ],
          celeryWorker |->
            [ enabled |-> TRUE, replicas |-> 1,
              image |-> [tag |-> get_service_tag(prof, "llm-gateway")] ],
          llmGatewayFrontend |->
            [ enabled |-> TRUE, replicas |-> 1,
              image |-> [tag |-> get_service_tag(prof, "llm-gateway-frontend")],
              basicAuth |-> [ enabled |-> TRUE, username |-> prof.llm_admin_username,
                              password |-> OrEmpty(prof.llm_admin_password) ] ],
          postgres |->
            [ enabled |-> TRUE, image |-> [tag |-> get_database_tag(prof, "llm-postgres")],
              password |-> OrEmpty(prof.llm_postgres_password),
              persistence |-> Persistence(prof, "10Gi"),
              resources |-> [limits |-> EmptyDict] ],
          redis |->
            [ enabled |-> TRUE, image |-> [tag |-> get_database_tag(prof, "llm-redis")],
              password |-> OrEmpty(prof.llm_redis_password),
              persistence |-> Persistence(prof, "5Gi"),
              resources |-> [limits |-> EmptyDict] ],
          vllm |->
            [ enabled |-> prof.vllm_enabled, replicas |-> 1,
              image |-> [tag |-> get_llm_service_tag(prof, "vllm-openai")],
              resources |-> IF prof.vllm_enabled /\ gpu_enabled THEN gpu ELSE EmptyDict ] ]

\* The values files written under output_dir/values, by file name.  A file
\* holds the dump of its values document, keys in insertion order.
render_k3s(prof) ==
    Entry(prof.studio_enabled, "studio-values.yaml", generate_studio_values(prof))
    @@ Entry(prof.stt_enabled, "stt-values.yaml", generate_stt_values(prof))
    @@ Entry(prof.live_session_enabled, "live-values.yaml", generate_live_values(prof))
    @@ Entry(prof.llm_enabled, "llm-values.yaml", generate_llm_values(prof))

-----------------------------------------------------------------------------
(* backends/k3s.py: apply_k3s and destroy_k3s *)

\* Outcome of an external command: exit code 0, a non-zero exit code, or
\* subprocess.TimeoutExpired / FileNotFoundError.
Outcomes == {"ok", "nonzero", "timeout"}

\* One external command or file operation of a call.
Step(cmd, target, result) == [cmd |-> cmd, target |-> target, result |-> result]

RECURSIVE Concat(_)
Concat(seqs) == IF seqs = <<>> THEN <<>> ELSE Head(seqs) \o Concat(Tail(seqs))

\* charts = ["linto-studio", "linto-stt", "linto-live", "linto-llm"]
ChartNames == <<"linto-studio", "linto-stt", "linto-live", "linto-llm">>

AllCharts == Range(ChartNames)

\* the flag and the values file of each chart in charts_to_deploy
ChartFlag ==
    "linto-studio" :> "studio_enabled" @@ "linto-stt" :> "stt_enabled"
    @@ "linto-live" :> "live_session_enabled" @@ "linto-llm" :> "llm_enabled"

ChartValues ==
    "linto-studio" :> "studio-values.yaml" @@ "linto-stt" :> "stt-values.yaml"
    @@ "linto-live" :> "live-values.yaml" @@ "linto-llm" :> "llm-values.yaml"

\* chart_name.replace('linto-', '')
StripLinto == "linto-studio" :> "studio" @@ "linto-stt" :> "stt" @@ "linto-live" :> "live" @@ "linto-llm" :> "llm"

\* release_name = f"linto-{chart_name.replace('linto-', '')}"
ReleaseName(chart_name) == "linto-" \o StripLinto[chart_name]

\* The cluster before anything was deployed, and the disk before anything
\* was rendered.  GPU nodes are absent: _install_dcgm_exporter returns at
\* its first test.
FreshCluster == [namespace |-> FALSE, certManager |-> FALSE, monitoring |-> FALSE, tlsSecrets |-> FALSE]

EmptyDisk == [k3s_dir |-> FALSE, values |-> {}, certs |-> FALSE, saves |-> 0]

\* the answers of kubectl version, helm version and kubectl cluster-info
ToolOutcomes == [kubectl : Outcomes, helm : Outcomes, cluster : Outcomes]

ToolsOk == [kubectl |-> "ok", helm |-> "ok", cluster |-> "ok"]

\* a call: its name, its arguments and what its prerequisite check found
Call(name, remove_files, remove_volumes, missing) == [name |-> name, remove_files |-> remove_files, remove_volumes |-> remove_volumes, missing |-> missing]

NoCall == Call("none", FALSE, FALSE, <<>>)

EnvInit ==
    /\ charts = AllCharts
    /\ cluster = FreshCluster
    /\ disk = EmptyDisk
    /\ opCall = NoCall
    /\ opLog = <<>>
    /\ opOutcome = ""

\* one probe of check_k3s_prerequisites
Missing(outcome, nonzero, absent) ==
    IF outcome = "ok" THEN <<>> ELSE IF outcome = "nonzero" THEN <<nonzero>> ELSE <<absent>>

\* check_k3s_prerequisites(profile): the list of missing prerequisites
check_k3s_prerequisites(tools) ==
    Missing(tools.kubectl, "kubectl not properly configured", "kubectl not found")
    \o Missing(tools.helm, "helm not properly configured", "helm not found")
    \o Missing(tools.cluster, "Kubernetes cluster not accessible",
               "Cannot connect to Kubernetes cluster")

\* variant: the list of missing prerequisites is not looked at
PrerequisitesMissing_Ignored(missing) == FALSE

\* `if missing: raise ValidationError("K3S_PREREQUISITES_MISSING", ...)`
PrerequisitesMissing(missing) == missing # <<>>

\* ensure_namespace(namespace): kubectl get namespace, else kubectl create namespace
ensure_namespace(cl, namespace, create) ==
    IF cl.namespace
    THEN [ok |-> TRUE, cluster |-> cl,
          log |-> <<Step("kubectl get namespace", namespace, "ok")>>]
    ELSE [ok |-> create = "ok",
          cluster |-> [cl EXCEPT !.namespace = (create = "ok")],
          log |-> <<Step("kubectl get namespace", namespace, "nonzero"),
                    Step("kubectl create namespace", namespace, create)>>]

\* install_cert_manager(): nothing when its namespace exists, else helm install
install_cert_manager(cl, install) ==
    IF cl.certManager
    THEN [cluster |-> cl, log |-> <<Step("kubectl get namespace", "cert-manager", "ok")>>]
    ELSE [cluster |-> [cl EXCEPT !.certManager = (install = "ok")],
          log |-> <<Step("kubectl get namespace", "cert-manager", "nonzero"),
                    Step("helm install", "cert-manager", install)>>]

\* restore_tls_certificates(): kubectl apply of the backed-up secret, if any
restore_tls_certificates(cl, dk, apply) ==
    IF ~dk.certs
    THEN [cluster |-> cl, log |-> <<>>]
    ELSE [cluster |-> [cl EXCEPT !.tlsSecrets = cl.tlsSecrets \/ apply = "ok"],
          log |-> <<Step("kubectl apply", "tls-secrets.json", apply)>>]

\* generate_k3s(profile_name): generate_secrets, save_profile, mkdir, render_k3s
generate_k3s(p, dk, draw) ==
    LET g == generate_secrets(p, draw)
        names == DOMAIN render_k3s(g.value)
        written == SelectSeq(<<"studio-values.yaml", "stt-values.yaml", "live-values.yaml", "llm-values.yaml">>, LAMBDA f : f \in names)
    IN  IF ~g.ok
        THEN [ok |-> FALSE, msg |-> g.msg, profile |-> p, disk |-> dk, log |-> <<>>]
        ELSE [ok |-> TRUE, msg |-> "", profile |-> g.value,
              disk |-> [dk EXCEPT !.saves = @ + 1, !.k3s_dir = TRUE,
                                  !.values = @ \cup names],
              log |-> <<Step("save_profile", g.value.name, "ok")>>
                      \o [i \in DOMAIN written |-> Step("write", written[i], "ok")]]

\* charts_to_deploy
ChartsToDeploy(p) == SelectSeq(ChartNames, LAMBDA c : p[ChartFlag[c]])

\* variant: the loop is left at the first upgrade that does not exit with 0
DeployChart_StopOnFailure(todo, i, ch, values, helm) ==
    IF \/ todo[i] \notin ch
       \/ ChartValues[todo[i]] \notin values
       \/ \E j \in 1..(i - 1) : helm[todo[j]] # "ok"
    THEN <<>>
    ELSE <<Step("helm upgrade --install", ReleaseName(todo[i]), helm[todo[i]])>>

\* one turn of `for chart_name, values_file in charts_to_deploy`
DeployChart(todo, i, ch, values, helm) ==
    IF todo[i] \notin ch THEN <<>>
    ELSE IF ChartValues[todo[i]] \notin values THEN <<>>
    ELSE <<Step("helm upgrade --install", ReleaseName(todo[i]), helm[todo[i]])>>

\* install_monitoring(): nothing when grafana is there, else helm upgrade --install
install_monitoring(cl, install) ==
    IF cl.monitoring
    THEN [cluster |-> cl, log |-> <<Step("kubectl get svc", "prometheus-grafana", "ok")>>]
    ELSE [cluster |-> [cl EXCEPT !.monitoring = (install = "ok")],
          log |-> <<Step("kubectl get svc", "prometheus-grafana", "nonzero"),
                    Step("helm upgrade --install", "prometheus", install)>>]

\* what a call leaves behind
Left(outcome, p, cl, dk, log) == [outcome |-> outcome, profile |-> p, cluster |-> cl, disk |-> dk, log |-> log]

\* tls_mode == "acme"
IsAcme(p) == p.tls_mode = "acme"

\* variant: the values are regenerated after the charts are deployed
ApplyOrder_HelmFirst(acme, gen, deploy, mon) == acme \o deploy \o gen \o mon

\* the steps of apply_k3s that follow ensure_namespace
ApplyOrder(acme, gen, deploy, mon) == acme \o gen \o deploy \o mon

\* apply_k3s(profile_name) under the outcomes x of its external commands
apply_k3s(p, cl, dk, ch, x) ==
    LET missing == check_k3s_prerequisites(x.tools)
        ns == ensure_namespace(cl, p.k3s_namespace, x.create)
        cm == IF IsAcme(p) /\ p.k3s_install_cert_manager
              THEN install_cert_manager(ns.cluster, x.install)
              ELSE [cluster |-> ns.cluster, log |-> <<>>]
        rs == IF IsAcme(p)
              THEN restore_tls_certificates(cm.cluster, dk, x.restore)
              ELSE [cluster |-> cm.cluster, log |-> <<>>]
        gen == generate_k3s(p, dk, x.draw)
        todo == ChartsToDeploy(p)
        deploy == Concat([i \in DOMAIN todo |-> DeployChart(todo, i, ch, gen.disk.values, x.helm)])
        mon == IF p.monitoring_enabled
               THEN install_monitoring(rs.cluster, x.monitoring)
               ELSE [cluster |-> rs.cluster, log |-> <<>>]
    IN  IF PrerequisitesMissing(missing)
        THEN Left("K3S_PREREQUISITES_MISSING", p, cl, dk, <<>>)
        ELSE IF ~ns.ok
        THEN Left("NAMESPACE_CREATION_FAILED", p, ns.cluster, dk, ns.log)
        ELSE IF ~gen.ok
        THEN Left(gen.msg, p, rs.cluster, dk, ns.log \o cm.log \o rs.log)
        ELSE Left("returned", gen.profile, mon.cluster, gen.disk,
                  ns.log \o ApplyOrder(cm.log \o rs.log, gen.log, deploy, mon.log))

\* backup_tls_certificates(): mkdir, kubectl get secrets, write tls-secrets.json
backup_tls_certificates(cl, dk, namespace, get) ==
    IF get = "ok" /\ cl.tlsSecrets
    THEN [disk |-> [dk EXCEPT !.certs = TRUE],
          log |-> <<Step("kubectl get secrets", namespace, get),
                    Step("write", "tls-secrets.json", "ok")>>]
    ELSE [disk |-> dk, log |-> <<Step("kubectl get secrets", namespace, get)>>]

\* uninstall_monitoring(): helm uninstall dcgm-exporter, helm uninstall prometheus
uninstall_monitoring(cl, uninstall) ==
    [cluster |-> [cl EXCEPT !.monitoring = cl.monitoring /\ uninstall # "ok"],
     log |-> <<Step("helm uninstall", "dcgm-exporter", uninstall),
               Step("helm uninstall", "prometheus", uninstall)>>]

\* one turn of `for chart_name in charts`
UninstallChart(i, helm) ==
    <<Step("helm uninstall", ReleaseName(ChartNames[i]), helm[ChartNames[i]])>>

\* variant: the PVCs are deleted whatever was asked
RemoveVolumes_Always(remove_volumes) == TRUE

\* `if remove_volumes:`
RemoveVolumes(remove_volumes) == remove_volumes

\* `if remove_files:`
RemoveFiles(remove_files) == remove_files

\* destroy_k3s(profile_name, remove_files, remove_volumes) under the outcomes x
destroy_k3s(p, cl, dk, remove_files, remove_volumes, x) ==
    LET missing == check_k3s_prerequisites(x.tools)
        bk == IF IsAcme(p)
              THEN backup_tls_certificates(cl, dk, p.k3s_namespace, x.backup)
              ELSE [disk |-> dk, log |-> <<>>]
        mon == IF p.monitoring_enabled
               THEN uninstall_monitoring(cl, x.monitoring)
               ELSE [cluster |-> cl, log |-> <<>>]
        uninstall == Concat([i \in DOMAIN ChartNames |-> UninstallChart(i, x.helm)])
        pvc == IF RemoveVolumes(remove_volumes)
               THEN <<Step("kubectl delete pvc", p.k3s_namespace, x.pvc)>>
               ELSE <<>>
        rm == RemoveFiles(remove_files) /\ bk.disk.k3s_dir
    IN  IF PrerequisitesMissing(missing)
        THEN Left("K3S_PREREQUISITES_MISSING", p, cl, dk, <<>>)
        ELSE Left("returned", p, mon.cluster,
                  IF rm THEN [bk.disk EXCEPT !.k3s_dir = FALSE, !.values = {}] ELSE bk.disk,
                  bk.log \o mon.log \o uninstall \o pvc
                  \o (IF rm THEN <<Step("rmtree", "k3s_dir", "ok")>> ELSE <<>>))

-----------------------------------------------------------------------------
(* Operations *)

\* The keyword arguments with the defaults of the omitted fields.
Arg == data @@ FieldDefaults

\* profile = ProfileConfig(**data)
Construct ==
    /\ pc = "new"
    /\ LET r == ProfileConfig(data)
       IN  /\ pc' = IF r.ok THEN "constructed" ELSE "failed"
           /\ profile' = r.value
           /\ error' = r.msg
    /\ UNCHANGED <<data, genArg, genCount, composeRuns, stackRuns, k3sRuns>>
    /\ UNCHANGED <<envVars, cliVars, kcVars, storeVars>>

\* profile = generate_secrets(profile)
GenerateSecrets ==
    /\ pc = "constructed"
    /\ genCount < MaxGen
    /\ \E draw \in 1..NumDraws :
         LET r == generate_secrets(profile, draw)
         IN  /\ genArg' = profile
             /\ genCount' = genCount + 1
             /\ pc' = IF r.ok THEN "constructed" ELSE "failed"
             /\ profile' = r.value
             /\ error' = r.msg
             \* the artifacts remembered are those of the profile object in hand
             /\ composeRuns' = IF r.value = profile THEN composeRuns ELSE <<>>
             /\ stackRuns' = IF r.value = profile THEN stackRuns ELSE <<>>
             /\ k3sRuns' = IF r.value = profile THEN k3sRuns ELSE <<>>
    /\ UNCHANGED data
    /\ UNCHANGED <<envVars, cliVars, kcVars, storeVars>>

\* doc = render_compose(profile)
RenderCompose ==
    /\ pc = "constructed"
    /\ Len(composeRuns) < MaxRenders
    /\ \E draw \in 1..NumDraws :
         LET r == render_compose(profile, draw)
         IN  /\ composeRuns' = IF r.ok THEN Append(composeRuns, r.value) ELSE composeRuns
             /\ error' = IF r.ok THEN error ELSE r.msg
    /\ UNCHANGED <<data, pc, profile, genArg, genCount, stackRuns, k3sRuns>>
    /\ UNCHANGED <<envVars, cliVars, kcVars, storeVars>>

\* doc = render_stack(profile)
RenderStack ==
    /\ pc = "constructed"
    /\ Len(stackRuns) < MaxRenders
    /\ \E draw \in 1..NumDraws :
         LET r == render_stack(profile, draw)
         IN  /\ stackRuns' = IF r.ok THEN Append(stackRuns, r.value) ELSE stackRuns
             /\ error' = IF r.ok THEN error ELSE r.msg
    /\ UNCHANGED <<data, pc, profile, genArg, genCount, composeRuns, k3sRuns>>
    /\ UNCHANGED <<envVars, cliVars, kcVars, storeVars>>

\* render_k3s(profile, output_dir)
RenderK3s ==
    /\ pc = "constructed"
    /\ Len(k3sRuns) < MaxRenders
    /\ k3sRuns' = Append(k3sRuns, render_k3s(profile))
    /\ UNCHANGED <<data, pc, profile, error, genArg, genCount, composeRuns, stackRuns>>
    /\ UNCHANGED <<envVars, cliVars, kcVars, storeVars>>

\* The outcomes of the external commands an apply_k3s call can run.
ApplyOutcomes(p, cl, dk) ==
    LET enabled == Range(ChartsToDeploy(p))
        quiet == [create |-> "ok", install |-> "ok", restore |-> "ok", draw |-> 1,
                  helm |-> [c \in enabled |-> "ok"], monitoring |-> "ok"]
    IN  { [tools |-> t] @@ quiet : t \in ToolOutcomes \ {ToolsOk} }
        \cup [ tools : {ToolsOk},
               create : IF cl.namespace THEN {"ok"} ELSE Outcomes,
               install : IF IsAcme(p) /\ p.k3s_install_cert_manager /\ ~cl.certManager
                         THEN Outcomes ELSE {"ok"},
               restore : IF IsAcme(p) /\ dk.certs THEN Outcomes ELSE {"ok"},
               draw : 1..NumDraws,
               helm : [enabled -> Outcomes],
               monitoring : IF p.monitoring_enabled /\ ~cl.monitoring
                            THEN Outcomes ELSE {"ok"} ]

\* The outcomes of the external commands a destroy_k3s call can run.
DestroyOutcomes(p, remove_volumes) ==
    LET quiet == [backup |-> "ok", monitoring |-> "ok", helm |-> [c \in AllCharts |-> "ok"],
                  pvc |-> "ok"]
    IN  { [tools |-> t] @@ quiet : t \in ToolOutcomes \ {ToolsOk} }
        \cup [ tools : {ToolsOk},
               backup : IF IsAcme(p) THEN Outcomes ELSE {"ok"},
               monitoring : IF p.monitoring_enabled THEN Outcomes ELSE {"ok"},
               helm : [AllCharts -> Outcomes],
               pvc : IF remove_volumes THEN Outcomes ELSE {"ok"} ]

\* the effects of backend.apply(profile) = apply_k3s under the outcomes x
Applies(x) ==
    LET r == apply_k3s(profile, cluster, disk, charts, x)
    IN  /\ profile' = r.profile
        /\ cluster' = r.cluster
        /\ disk' = r.disk
        /\ opLog' = r.log
        /\ opOutcome' = r.outcome
        /\ opCall' = Call("apply_k3s", FALSE, FALSE, check_k3s_prerequisites(x.tools))

\* the effects of backend.destroy(profile, remove_files, remove_volumes) = destroy_k3s
Destroys(remove_files, remove_volumes, x) ==
    LET r == destroy_k3s(profile, cluster, disk, remove_files, remove_volumes, x)
    IN  /\ profile' = profile
        /\ cluster' = r.cluster
        /\ disk' = r.disk
        /\ opLog' = r.log
        /\ opOutcome' = r.outcome
        /\ opCall' = Call("destroy_k3s", remove_files, remove_volumes,
                          check_k3s_prerequisites(x.tools))

\* apply_k3s(profile.name)
ApplyK3s ==
    /\ pc = "constructed"
    /\ opCall = NoCall
    /\ \E x \in ApplyOutcomes(profile, cluster, disk) : Applies(x)
    /\ UNCHANGED <<data, pc, error, genArg, genCount, composeRuns, stackRuns, k3sRuns, charts>>
    /\ UNCHANGED <<cliVars, kcVars, storeVars>>

\* destroy_k3s(profile.name, remove_files, remove_volumes)
DestroyK3s ==
    /\ pc = "constructed"
    /\ opCall = NoCall
    /\ \E remove_files \in BOOLEAN, remove_volumes \in BOOLEAN :
         \E x \in DestroyOutcomes(profile, remove_volumes) :
           Destroys(remove_files, remove_volumes, x)
    /\ UNCHANGED <<data, pc, error, genArg, genCount, composeRuns, stackRuns, k3sRuns, charts>>
    /\ UNCHANGED <<cliVars, kcVars, storeVars>>

-----------------------------------------------------------------------------
(* cli.py: render, deploy, destroy, status *)

\* a command line: the command, its flags and the answers given to its prompts
Command(command, force, volumes, remove_files, answers) == [command |-> command, force |-> force, volumes |-> volumes, remove_files |-> remove_files, answers |-> answers]

NoCommand == Command("none", FALSE, FALSE, FALSE, <<>>)

NoExit == <<>>

CliInit ==
    /\ cliCall = NoCommand
    /\ cliExit = NoExit
    /\ cliPrompts = 0
    /\ backendCalls = <<>>

\* variant: every backend goes through
BackendSupported_Any(backend) == TRUE

\* _check_backend_supported: `backend != DeploymentBackend.K3S` raises typer.Exit(1)
BackendSupported(backend) == backend = "k3s"

\* get_backend(backend_type): the module serving a backend
get_backend(backend_type) ==
    IF backend_type = "swarm" THEN "swarm" ELSE IF backend_type = "k3s" THEN "k3s" ELSE "compose"

\* the exit code once the backend function returned, or raised into _handle_error
ExitCode(outcome) == IF outcome = "returned" THEN 0 ELSE 1

\* status_k3s(profile_name): the prerequisite check, then helm list
status_k3s(p, tools, list) ==
    IF PrerequisitesMissing(check_k3s_prerequisites(tools))
    THEN [outcome |-> "K3S_PREREQUISITES_MISSING", log |-> <<>>]
    ELSE [outcome |-> "returned", log |-> <<Step("helm list", p.k3s_namespace, list)>>]

\* `if not force:` the confirmation prompt of destroy
NeedsConfirmation(force) == ~force

\* variant: the data-loss prompt is not asked for
NeedsVolumeConfirmation_Never(volumes, force) == FALSE

\* `if volumes and not force:` the data-loss prompt of destroy
NeedsVolumeConfirmation(volumes, force) == volumes /\ ~force

\* the command ends with typer.Exit(code) before any backend call
Ends(code, prompts) ==
    /\ cliExit' = <<code>>
    /\ cliPrompts' = prompts
    /\ backendCalls' = <<>>
    /\ UNCHANGED <<profile, envVars>>

\* the command calls a function of the compose or swarm module, whose
\* effects are outside this model: the call is recorded
CallsForeign(function, prompts) ==
    /\ cliExit' = <<0>>
    /\ cliPrompts' = prompts
    /\ backendCalls' = <<get_backend(profile.backend) \o "." \o function>>
    /\ UNCHANGED <<profile, envVars>>

\* the command calls a function of the k3s module and exits on its outcome
CallsK3s(function, prompts) ==
    /\ cliExit' = <<ExitCode(opOutcome')>>
    /\ cliPrompts' = prompts
    /\ backendCalls' = <<"k3s." \o function>>

\* what no command changes
CliFrame == UNCHANGED <<data, pc, error, genArg, genCount, composeRuns, stackRuns, k3sRuns, kcVars, storeVars>>

\* linto render PROFILE
CliRender ==
    /\ pc = "constructed"
    /\ cliCall = NoCommand
    /\ cliCall' = Command("render", FALSE, FALSE, FALSE, <<>>)
    /\ IF ~BackendSupported(profile.backend) THEN Ends(1, 0)
       ELSE IF get_backend(profile.backend) # "k3s" THEN CallsForeign("generate", 0)
       ELSE \E draw \in 1..NumDraws :
              LET gen == generate_k3s(profile, disk, draw)
              IN  /\ profile' = gen.profile
                  /\ disk' = gen.disk
                  /\ opLog' = gen.log
                  /\ opOutcome' = IF gen.ok THEN "returned" ELSE gen.msg
                  /\ opCall' = Call("generate_k3s", FALSE, FALSE, <<>>)
                  /\ CallsK3s("generate", 0)
                  /\ UNCHANGED <<charts, cluster>>
    /\ CliFrame

\* linto deploy PROFILE [--force]; warnings: validate_gpu_capacity found some
CliDeploy ==
    /\ pc = "constructed"
    /\ cliCall = NoCommand
    /\ \E force \in BOOLEAN, warnings \in BOOLEAN, answer \in BOOLEAN :
         LET asked == warnings /\ ~force
             prompts == IF asked THEN 1 ELSE 0
         IN  /\ cliCall' = Command("deploy", force, FALSE, FALSE,
                                   IF asked /\ BackendSupported(profile.backend)
                                   THEN <<answer>> ELSE <<>>)
             /\ IF ~BackendSupported(profile.backend) THEN Ends(1, 0)
                ELSE IF asked /\ ~answer THEN Ends(0, 1)
                ELSE IF get_backend(profile.backend) # "k3s" THEN CallsForeign("apply", prompts)
                ELSE /\ \E x \in ApplyOutcomes(profile, cluster, disk) : Applies(x)
                     /\ CallsK3s("apply", prompts)
                     /\ UNCHANGED charts
    /\ CliFrame

\* linto destroy PROFILE [--force] [--volumes] [--remove-files]
CliDestroy ==
    /\ pc = "constructed"
    /\ cliCall = NoCommand
    /\ \E force \in BOOLEAN, volumes \in BOOLEAN, remove_files \in BOOLEAN :
         \E sure \in BOOLEAN, really \in BOOLEAN :
           LET first == NeedsConfirmation(force)
               second == NeedsVolumeConfirmation(volumes, force)
               answers == IF ~BackendSupported(profile.backend) THEN <<>>
                          ELSE (IF first THEN <<sure>> ELSE <<>>)
                               \o (IF second /\ (first => sure) THEN <<really>> ELSE <<>>)
           IN  /\ cliCall' = Command("destroy", force, volumes, remove_files, answers)
               /\ IF ~BackendSupported(profile.backend) THEN Ends(1, 0)
                  ELSE IF first /\ ~sure THEN Ends(0, 1)
                  ELSE IF second /\ ~really THEN Ends(0, Len(answers))
                  ELSE IF get_backend(profile.backend) # "k3s"
                  THEN CallsForeign("destroy", Len(answers))
                  ELSE /\ \E x \in DestroyOutcomes(profile, volumes) :
                            Destroys(remove_files, volumes, x)
                       /\ CallsK3s("destroy", Len(answers))
                       /\ UNCHANGED charts
    /\ CliFrame

\* linto status PROFILE (one display)
CliStatus ==
    /\ pc = "constructed"
    /\ cliCall = NoCommand
    /\ cliCall' = Command("status", FALSE, FALSE, FALSE, <<>>)
    /\ IF ~BackendSupported(profile.backend) THEN Ends(1, 0)
       ELSE IF get_backend(profile.backend) # "k3s" THEN CallsForeign("status", 0)
       ELSE \E tools \in ToolOutcomes, list \in Outcomes :
              LET r == status_k3s(profile, tools, list)
              IN  /\ opLog' = r.log
                  /\ opOutcome' = r.outcome
                  /\ opCall' = Call("status_k3s", FALSE, FALSE, check_k3s_prerequisites(tools))
                  /\ CallsK3s("status", 0)
                  /\ UNCHANGED <<profile, charts, cluster, disk>>
    /\ CliFrame

-----------------------------------------------------------------------------
(* utils/kubeconfig.py: KubeconfigContext *)

\* the kubeconfig of a profile: None, or a dict given by its YAML text
Kubeconfigs == {None, "clusters: []", "clusters: [{name: prod}]"}

\* tempfile.mkstemp(suffix=".yaml", prefix="kubeconfig-"): the n-th fresh path
mkstemp(n) == "/tmp/kubeconfig-" \o ToString(n) \o ".yaml"

\* KubeconfigContext.__init__
KubeconfigContext(kubeconfig) == [kubeconfig |-> kubeconfig, temp_file |-> None, original_env |-> None]

KcInit ==
    /\ environ = None
    /\ tmpFiles = {}
    /\ contexts = <<>>
    /\ entered = 0
    /\ created = 0
    /\ outerEnv = None

\* variant: an empty original value is not restored
HasOriginal_Truthy(original_env) == Truthy(original_env)

\* `if self.original_env is not None:`
HasOriginal(original_env) == original_env # None

\* KubeconfigContext(kubeconfig).__enter__()
KcEnter ==
    /\ entered < MaxEnters
    /\ \E kubeconfig \in Kubeconfigs :
         LET self == KubeconfigContext(kubeconfig)
             path == mkstemp(created + 1)
         IN  IF kubeconfig = None
             THEN /\ contexts' = Append(contexts, self)
                  /\ UNCHANGED <<environ, tmpFiles, created>>
             ELSE /\ tmpFiles' = tmpFiles \cup {path}
                  /\ created' = created + 1
                  /\ contexts' = Append(contexts, [self EXCEPT !.temp_file = path,
                                                               !.original_env = environ])
                  /\ environ' = path
    /\ entered' = entered + 1
    /\ outerEnv' = IF contexts = <<>> THEN environ ELSE outerEnv
    /\ UNCHANGED <<modelVars, envVars, cliVars, storeVars>>

\* __exit__ of the innermost context
KcExit ==
    /\ contexts # <<>>
    /\ LET self == contexts[Len(contexts)]
       IN  /\ environ' = IF HasOriginal(self.original_env) THEN self.original_env
                         ELSE IF environ # None /\ self.kubeconfig # None THEN None
                         ELSE environ
           /\ tmpFiles' = IF self.temp_file # None /\ self.temp_file \in tmpFiles
                          THEN tmpFiles \ {self.temp_file} ELSE tmpFiles
           /\ contexts' = SubSeq(contexts, 1, Len(contexts) - 1)
    /\ UNCHANGED <<entered, created, outerEnv, modelVars, envVars, cliVars, storeVars>>

-----------------------------------------------------------------------------
(* model/validation.py and profile_ops.py.  The profiles directory is the  *)
(* function from the stem of each *.json file present to its JSON content, *)
(* a dict of keyword arguments.  A call that raises carries the class of   *)
(* its exception: "ValidationError" is the class of model/validation.py,   *)
(* "pydantic.ValidationError" the one the ProfileConfig constructor raises. *)

Result(v) == [ok |-> TRUE, kind |-> "", code |-> "", value |-> v]

RaisedAs(kind, code) == [ok |-> FALSE, kind |-> kind, code |-> code, value |-> <<>>]

\* a call on the store: its name, its arguments and its rank in the run
Op(op, src, dst, n) == [op |-> op, src |-> src, dst |-> dst, n |-> n]

NoOp == Op("none", "", "", 0)

NoPass == [pc |-> "start", local |-> NoProfile, written |-> <<>>]

\* the processes that run generate_k3s on the stored profile
Pids == {1, 2}

NoCheck == [ok |-> FALSE, kind |-> "not called", warnings |-> <<>>, available |-> <<>>]

StoreInit ==
    /\ files = <<>>
    /\ fsCall = NoOp
    /\ fsResult = Result(<<>>)
    /\ rendered = <<>>
    /\ passes = [i \in Pids |-> NoPass]
    /\ genRuns = <<>>
    /\ gpuCall = NoCheck

\* profile_path.exists()
validate_profile_exists(fs, profile_name) == profile_name \in DOMAIN fs

\* load_profile(profile_name): PROFILE_NOT_FOUND, or ProfileConfig(**json.load(f))
load_profile(fs, profile_name) ==
    IF ~validate_profile_exists(fs, profile_name)
    THEN RaisedAs("ValidationError", "PROFILE_NOT_FOUND")
    ELSE LET r == ProfileConfig(fs[profile_name])
         IN  IF r.ok THEN Result(r.value) ELSE RaisedAs("pydantic.ValidationError", r.msg)

\* variant: nothing is written
save_profile_Dropped(fs, p) == fs

\* save_profile(p): json.dump(p.model_dump()) into <p.name>.json
save_profile(fs, p) == (p.name :> p) @@ fs

\* `except ValidationError: continue`, ValidationError imported from model/validation.py
Skipped(r) == ~r.ok /\ r.kind = "ValidationError"

\* the order of str on the profile names the inputs draw from
NameOrder == <<"dev", "prod-1", "test">>

\* sorted(profiles, key=lambda p: p.name): stable
SortedByName(profiles) ==
    Concat([k \in DOMAIN NameOrder |-> SelectSeq(profiles, LAMBDA p : p.name = NameOrder[k])])

\* list_profiles(): order is the order in which glob("*.json") yields the files
list_profiles(fs, order) ==
    LET loads == [i \in DOMAIN order |-> load_profile(fs, order[i])]
        raising == {i \in DOMAIN order : ~loads[i].ok /\ ~Skipped(loads[i])}
        loaded == SelectSeq(loads, LAMBDA r : r.ok)
    IN  IF raising # {}
        THEN loads[CHOOSE i \in raising : \A j \in raising : i <= j]
        ELSE Result(SortedByName([i \in DOMAIN loaded |-> loaded[i].value]))

\* delete_profile(name)
delete_profile(fs, name) ==
    IF name \notin DOMAIN fs
    THEN [result |-> RaisedAs("ValidationError", "PROFILE_NOT_FOUND"), files |-> fs]
    ELSE [result |-> Result(<<>>), files |-> [s \in DOMAIN fs \ {name} |-> fs[s]]]

\* variant: the destination is tested before the source is loaded
CopyChecks_DestinationFirst(source, dst_exists) ==
    IF dst_exists THEN RaisedAs("ValidationError", "PROFILE_EXISTS")
    ELSE IF ~source.ok THEN source
    ELSE Result(<<>>)

\* load_profile(src), then `if dst_path.exists(): raise`
CopyChecks(source, dst_exists) ==
    IF ~source.ok THEN source
    ELSE IF dst_exists THEN RaisedAs("ValidationError", "PROFILE_EXISTS")
    ELSE Result(<<>>)

\* copy_profile(src, dst): model_copy(update={"name": dst}) runs no validator
copy_profile(fs, src, dst) ==
    LET source_profile == load_profile(fs, src)
        checks == CopyChecks(source_profile, dst \in DOMAIN fs)
    IN  IF ~checks.ok THEN [result |-> checks, files |-> fs]
        ELSE [result |-> Result(dst \o ".json"),
              files |-> save_profile(fs, [source_profile.value EXCEPT !.name = dst])]

\* the names the calls on the profiles directory are made with
Stems == {"dev", "test", "prod-1", "my_profile", ""}

\* the orders in which glob can yield the files of a directory
Orders(S) == { o \in [1..Cardinality(S) -> S] : \A i, j \in DOMAIN o : o[i] = o[j] => i = j }

StoreFrame == UNCHANGED <<modelVars, envVars, cliVars, kcVars, rendered, passes, genRuns, gpuCall>>

\* profiles = list_profiles()
ListProfiles ==
    /\ fsCall.n < MaxOps
    /\ \E order \in Orders(DOMAIN files) :
         /\ fsCall' = Op("list_profiles", "", "", fsCall.n + 1)
         /\ fsResult' = list_profiles(files, order)
    /\ UNCHANGED files
    /\ StoreFrame

\* delete_profile(name)
DeleteProfile ==
    /\ fsCall.n < MaxOps
    /\ \E name \in Stems :
         LET r == delete_profile(files, name)
         IN  /\ fsCall' = Op("delete_profile", name, "", fsCall.n + 1)
             /\ fsResult' = r.result
             /\ files' = r.files
    /\ StoreFrame

\* copy_profile(src, dst)
CopyProfile ==
    /\ fsCall.n < MaxOps
    /\ \E src \in Stems, dst \in Stems :
         LET r == copy_profile(files, src, dst)
         IN  /\ fsCall' = Op("copy_profile", src, dst, fsCall.n + 1)
             /\ fsResult' = r.result
             /\ files' = r.files
    /\ StoreFrame

\* profile = load_profile(name)
LoadProfile ==
    /\ fsCall.n < MaxOps
    /\ \E name \in Stems :
         /\ fsCall' = Op("load_profile", name, "", fsCall.n + 1)
         /\ fsResult' = load_profile(files, name)
    /\ UNCHANGED files
    /\ StoreFrame

-----------------------------------------------------------------------------
(* gpu/__init__.py *)

GPURequirement(service_name, slots_required, optional) == [service_name |-> service_name, slots_required |-> slots_required, optional |-> optional]

\* one turn of `for variant in profile.streaming_stt_variants`
VariantRequirement(variant) ==
    IF variant = "nemo-french" THEN <<GPURequirement("stt-nemo-french-streaming", 1, FALSE)>>
    ELSE IF variant = "nemo-english" THEN <<GPURequirement("stt-nemo-english-streaming", 1, FALSE)>>
    ELSE IF variant = "kyutai" THEN <<GPURequirement("stt-kyutai-streaming", 1, FALSE)>>
    ELSE IF variant = "whisper" THEN <<GPURequirement("stt-whisper-streaming", 1, TRUE)>>
    ELSE <<>>

get_enabled_gpu_services(p) ==
    (IF p.llm_enabled /\ p.vllm_enabled THEN <<GPURequirement("vllm-service", 1, FALSE)>> ELSE <<>>)
    \o (IF p.live_session_enabled
        THEN Concat([i \in DOMAIN p.streaming_stt_variants |->
                        VariantRequirement(p.streaming_stt_variants[i])])
        ELSE <<>>)
    \o (IF p.stt_enabled
        THEN <<GPURequirement("stt-whisper-workers", 1, TRUE),
               GPURequirement("diarization-pyannote", 1, TRUE)>>
        ELSE <<>>)

\* the if / elif chain over GPUMode.NONE, GPUMode.EXCLUSIVE and
\* GPUMode.TIMESLICING; GPUMode.TIME_SLICING falls to the else branch
calculate_total_gpu_slots(p) ==
    IF p.gpu_mode = "none" THEN Returned(0)
    ELSE IF p.gpu_mode = "exclusive" THEN Returned(p.gpu_count)
    ELSE IF p.gpu_mode = "timeslicing" THEN Returned(p.gpu_count * p.gpu_slices_per_gpu)
    ELSE Raised("NotImplementedError: MIG mode not supported")

RECURSIVE SumSlots(_)
SumSlots(reqs) == IF reqs = <<>> THEN 0 ELSE Head(reqs).slots_required + SumSlots(Tail(reqs))

ServiceNames(reqs) == [i \in DOMAIN reqs |-> reqs[i].service_name]

\* what validate_gpu_capacity leaves: the warnings it returned and the
\* available slots it computed (none when it returned before computing them)
GpuChecked(warnings, available) == [ok |-> TRUE, kind |-> "", warnings |-> warnings, available |-> available]

GpuRaised(kind) == [ok |-> FALSE, kind |-> kind, warnings |-> <<>>, available |-> <<>>]

validate_gpu_capacity(p) ==
    LET requirements == get_enabled_gpu_services(p)
        slots == calculate_total_gpu_slots(p)
        available_slots == slots.value
        mandatory == SelectSeq(requirements, LAMBDA r : ~r.optional)
        optional_services == SelectSeq(requirements, LAMBDA r : r.optional)
        required_slots == SumSlots(mandatory)
        total_slots == SumSlots(requirements)
    IN  IF requirements = <<>> THEN GpuChecked(<<>>, <<>>)
        ELSE IF ~slots.ok THEN GpuRaised(slots.msg)
        ELSE IF required_slots > 0 /\ available_slots = 0
        THEN GpuChecked(<<[text |-> "GPU required but not configured",
                           services |-> ServiceNames(mandatory)]>>, <<available_slots>>)
        ELSE IF required_slots > available_slots
        THEN GpuChecked(<<[text |-> "GPU Capacity Warning",
                           services |-> ServiceNames(mandatory)]>>, <<available_slots>>)
        ELSE IF total_slots > available_slots /\ available_slots > 0 /\ optional_services # <<>>
        THEN GpuChecked(<<[text |-> "Note: Some optional GPU services may run on CPU",
                           services |-> ServiceNames(optional_services)]>>, <<available_slots>>)
        ELSE GpuChecked(<<>>, <<available_slots>>)

\* warnings = validate_gpu_capacity(profile)
ValidateGpuCapacity ==
    /\ pc = "constructed"
    /\ gpuCall = NoCheck
    /\ gpuCall' = validate_gpu_capacity(profile)
    /\ UNCHANGED <<modelVars, envVars, cliVars, kcVars>>
    /\ UNCHANGED <<files, fsCall, fsResult, rendered, passes, genRuns>>

-----------------------------------------------------------------------------
(* backends/k3s.py: generate_k3s and apply_k3s on the stored profile.      *)
(* generate_k3s is load_profile, then generate_secrets and save_profile,   *)
(* then render_k3s; it takes no lock and writes in place, so nothing orders *)
(* the steps of two processes that run it on the same profile.             *)

\* the name of the profile the calls are made on
Stored == "dev"

Pass(at, local, written) == [pc |-> at, local |-> local, written |-> written]

PassFrame == UNCHANGED <<modelVars, envVars, cliVars, kcVars, fsCall, fsResult, genRuns, gpuCall>>

\* process i: profile = load_profile(profile_name, base_dir)
GenLoad(i) ==
    /\ passes[i].pc = "start"
    /\ LET l == load_profile(files, Stored)
       IN  passes' = [passes EXCEPT ![i] = IF l.ok THEN Pass("loaded", l.value, <<>>)
                                           ELSE Pass("failed", NoProfile, <<>>)]
    /\ UNCHANGED <<files, rendered>>
    /\ PassFrame

\* process i: profile = generate_secrets(profile); save_profile(profile, base_dir)
GenSave(i) ==
    /\ passes[i].pc = "loaded"
    /\ \E draw \in 1..NumDraws :
         LET g == generate_secrets(passes[i].local, draw)
         IN  /\ passes' = [passes EXCEPT ![i] = IF g.ok THEN Pass("saved", g.value, <<>>)
                                                ELSE Pass("failed", NoProfile, <<>>)]
             /\ files' = IF g.ok THEN save_profile(files, g.value) ELSE files
    /\ UNCHANGED rendered
    /\ PassFrame

\* process i: generated_files = render_k3s(profile, k3s_dir)
GenRender(i) ==
    /\ passes[i].pc = "saved"
    /\ LET docs == render_k3s(passes[i].local)
       IN  /\ passes' = [passes EXCEPT ![i] = Pass("done", passes[i].local, docs)]
           /\ rendered' = docs @@ rendered
    /\ UNCHANGED files
    /\ PassFrame

\* what a generate_k3s that ran to its end leaves on disk
LeftOnDisk(fs, rd, p) ==
    LET values == render_k3s(p) @@ rd
        saved == save_profile(fs, p)
    IN  [files |-> saved, rendered |-> values,
         run |-> [file |-> saved[Stored], values |-> values]]

\* generate_k3s(profile_name), one process, from its first line to its last
GenerateK3s ==
    /\ fsCall.n < MaxCalls
    /\ fsCall' = Op("generate_k3s", Stored, "", fsCall.n + 1)
    /\ \E draw \in 1..NumDraws, l \in {load_profile(files, Stored)} :
         IF ~l.ok
         THEN /\ fsResult' = l
              /\ UNCHANGED <<files, rendered, genRuns, disk>>
         ELSE \E r \in {generate_k3s(l.value, disk, draw)} :
                IF ~r.ok
                THEN /\ fsResult' = RaisedAs("pydantic.ValidationError", r.msg)
                     /\ UNCHANGED <<files, rendered, genRuns, disk>>
                ELSE \E left \in {LeftOnDisk(files, rendered, r.profile)} :
                       /\ fsResult' = Result(<<>>)
                       /\ files' = left.files
                       /\ rendered' = left.rendered
                       /\ genRuns' = Append(genRuns, left.run)
                       /\ disk' = r.disk
    /\ UNCHANGED <<modelVars, cliVars, kcVars, passes, gpuCall>>
    /\ UNCHANGED <<charts, cluster, opCall, opLog, opOutcome>>

\* outcomes of the external commands of an apply_k3s call: all succeed, a
\* prerequisite is missing, the namespace cannot be created, every helm
\* upgrade fails
StoredOutcomes(p) ==
    LET enabled == Range(ChartsToDeploy(p))
        quiet == [tools |-> ToolsOk, create |-> "ok", install |-> "ok", restore |-> "ok",
                  draw |-> 1, helm |-> [c \in enabled |-> "ok"], monitoring |-> "ok"]
    IN  { [quiet EXCEPT !.draw = d] : d \in 1..NumDraws }
        \cup { [quiet EXCEPT !.tools = [ToolsOk EXCEPT !.helm = "timeout"]],
               [quiet EXCEPT !.create = "nonzero"],
               [quiet EXCEPT !.helm = [c \in enabled |-> "nonzero"]] }

\* apply_k3s(profile_name), from its first line to its last
ApplyStored ==
    /\ fsCall.n < MaxCalls
    /\ fsCall' = Op("apply_k3s", Stored, "", fsCall.n + 1)
    /\ \E l \in {load_profile(files, Stored)} :
         /\ l.ok
         /\ \E x \in StoredOutcomes(l.value) :
              \E r \in {apply_k3s(l.value, cluster, disk, charts, x)} :
                /\ fsResult' = (IF r.outcome = "returned" THEN Result(<<>>)
                                ELSE RaisedAs("ValidationError", r.outcome))
                /\ cluster' = r.cluster
                /\ disk' = r.disk
                /\ opLog' = r.log
                /\ opOutcome' = r.outcome
                /\ opCall' = Call("apply_k3s", FALSE, FALSE, check_k3s_prerequisites(x.tools))
                /\ IF r.outcome = "returned"
                   THEN \E left \in {LeftOnDisk(files, rendered, r.profile)} :
                          /\ files' = left.files
                          /\ rendered' = left.rendered
                          /\ genRuns' = Append(genRuns, left.run)
                   ELSE UNCHANGED <<files, rendered, genRuns>>
    /\ UNCHANGED <<modelVars, cliVars, kcVars, passes, gpuCall, charts>>

InitWith(inputs) ==
    /\ data \in inputs
    /\ pc = "new"
    /\ profile = NoProfile
    /\ error = ""
    /\ genArg = NoProfile
    /\ genCount = 0
    /\ composeRuns = <<>>
    /\ stackRuns = <<>>
    /\ k3sRuns = <<>>
    /\ EnvInit
    /\ CliInit
    /\ StoreInit
    /\ KcInit

-----------------------------------------------------------------------------
(* Input families for validation *)

Flags ==
    { [studio_enabled |-> a, stt_enabled |-> b, live_session_enabled |-> c, llm_enabled |-> d] :
        a \in BOOLEAN, b \in BOOLEAN, c \in BOOLEAN, d \in BOOLEAN }

OptText(v) == {None, "", v}

\* feature flags x kyutai selection x TLS settings
TlsInputs ==
    { f @@ [ streaming_stt_variants |-> v, kyutai_gpu_architecture |-> a, tls_mode |-> t,
             acme_email |-> e, custom_cert_path |-> c, custom_key_path |-> k ] :
        f \in Flags,
        v \in {<<>>, <<"kyutai">>, <<"whisper", "kyutai">>},
        a \in {None, "ampere"},
        t \in TLSMode,
        e \in OptText("ops@example.com"),
        c \in OptText("/etc/ssl/cert.pem"),
        k \in OptText("/etc/ssl/key.pem") }

\* feature flags x SMTP block x Google block
SmtpInputs ==
    { f @@ [ smtp_enabled |-> s, smtp_host |-> h, smtp_auth |-> a, smtp_no_reply_email |-> n,
             oidc_google_enabled |-> g, oidc_google_client_id |-> gi,
             oidc_google_client_secret |-> gs ] :
        f \in Flags, s \in BOOLEAN,
        h \in OptText("smtp.test.com"), a \in OptText("user@test.com"),
        n \in OptText("noreply@test.com"),
        g \in BOOLEAN, gi \in {None, "google-id"}, gs \in {None, "google-secret"} }

\* the three OIDC providers together
OidcInputs ==
    { f @@ [ oidc_google_enabled |-> g, oidc_google_client_id |-> gi,
             oidc_google_client_secret |-> gs,
             oidc_github_enabled |-> h, oidc_github_client_id |-> hi,
             oidc_github_client_secret |-> hs,
             oidc_native_type |-> t, oidc_native_client_id |-> ni,
             oidc_native_client_secret |-> ns, oidc_native_url |-> nu ] :
        f \in { [studio_enabled |-> TRUE], [studio_enabled |-> FALSE, stt_enabled |-> FALSE] },
        g \in BOOLEAN, gi \in {None, "google-id"}, gs \in {None, "google-secret"},
        h \in BOOLEAN, hi \in {"", "github-id"}, hs \in {None, "github-secret"},
        t \in {None, "", "linagora", "eu", "keycloak"},
        ni \in {None, "native-id"}, ns \in {None, "native-secret"},
        nu \in {None, "https://sso.linagora.com"} }

\* feature flags x field-level validity of unrelated fields
FieldInputs ==
    { f @@ [ name |-> n, domain |-> d, super_admin_password |-> p, backend |-> b,
             gpu_mode |-> g ] :
        f \in Flags, n \in {"test", "bad name"}, d \in {"test.local", "bad_host"},
        p \in {None, "short", "adminpass"}, b \in {"compose", "k3s"},
        g \in {"none", "timeslicing", "shared"} }

ValidateInputs == TlsInputs \cup SmtpInputs \cup OidcInputs \cup FieldInputs

InitValidate == InitWith(ValidateInputs)

NextValidate == Construct

SpecValidate == InitValidate /\ [][NextValidate]_vars

-----------------------------------------------------------------------------
(* Input families for the secret provider *)

SecretInputs ==
    { [ live_session_enabled |-> l, llm_enabled |-> m,
        redis_password |-> s1, jwt_secret |-> s2, jwt_refresh_secret |-> s3,
        super_admin_password |-> s4, session_postgres_password |-> s5,
        session_crypt_key |-> s6, llm_postgres_password |-> s7,
        llm_redis_password |-> s8, llm_encryption_key |-> s9,
        llm_admin_password |-> s10 ] :
        l \in BOOLEAN, m \in BOOLEAN,
        s1 \in OptText("redis-pass"), s2 \in {None, "jwt-secret"},
        s3 \in {None, "jwt-refresh"}, s4 \in {None, "short", "adminpass"},
        s5 \in OptText("session-pg"), s6 \in {None, "CRYPTKEY00"},
        s7 \in {None, "llm-pg"}, s8 \in {None, "llm-redis"},
        s9 \in {None, "llm-fernet-key"}, s10 \in OptText("llm-admin") }

InitSecrets == InitWith(SecretInputs)

NextSecrets == Construct \/ GenerateSecrets

SpecSecrets == InitSecrets /\ [][NextSecrets]_vars

-----------------------------------------------------------------------------
(* Input families for the renderers *)

PresetSecrets ==
    [ redis_password |-> "redis-pass", jwt_secret |-> "jwt-secret",
      jwt_refresh_secret |-> "jwt-refresh", super_admin_password |-> "adminpass",
      session_postgres_password |-> "session-pg", session_crypt_key |-> "CRYPTKEY00",
      llm_postgres_password |-> "llm-pg", llm_redis_password |-> "llm-redis",
      llm_encryption_key |-> "llm-fernet-key", llm_admin_password |-> "llm-admin" ]

NoFlags ==
    [ studio_enabled |-> FALSE, stt_enabled |-> FALSE, live_session_enabled |-> FALSE,
      llm_enabled |-> FALSE ]

\* every combination of feature blocks, TLS off or on, secrets set
RenderFlagInputs ==
    { f @@ [tls_mode |-> t, streaming_stt_variants |-> <<"whisper">>] @@ PresetSecrets :
        f \in Flags, t \in {"off", "mkcert"} }

\* profiles whose secrets are not set yet, or set in part
RenderUnfilledInputs ==
    { f @@ s :
        f \in { [studio_enabled |-> TRUE, stt_enabled |-> TRUE] @@ NoFlags,
                [live_session_enabled |-> TRUE, llm_enabled |-> TRUE] @@ NoFlags },
        s \in { EmptyDict, [jwt_secret |-> "jwt-secret", redis_password |-> ""] } }

\* studio alone under the TLS modes that need further settings
RenderTlsInputs ==
    { [studio_enabled |-> TRUE] @@ NoFlags @@ t @@ PresetSecrets :
        t \in { [tls_mode |-> "acme", acme_email |-> "ops@example.com"],
                [tls_mode |-> "acme"],
                [ tls_mode |-> "custom", custom_cert_path |-> "/etc/ssl/cert.pem",
                  custom_key_path |-> "/etc/ssl/key.pem" ] } }

\* the live-session block with its streaming variants
RenderLiveInputs ==
    { [ live_session_enabled |-> TRUE, streaming_stt_variants |-> v,
        kyutai_gpu_architecture |-> a, gpu_mode |-> g, backend |-> "k3s" ]
      @@ NoFlags @@ PresetSecrets :
        v \in { <<>>, <<"kaldi-french", "nemo-french">>, <<"nemo-english", "kyutai">>,
                <<"kyutai", "kyutai">> },
        <<a, g>> \in {<<None, "none">>, <<"hopper", "none">>, <<"hopper", "exclusive">>} }

\* the LLM block with and without vLLM
RenderLlmInputs ==
    { [ llm_enabled |-> TRUE, vllm_enabled |-> v, openai_api_base |-> b, gpu_mode |-> g,
        openai_api_token |-> "sk-token", backend |-> "k3s" ]
      @@ NoFlags @@ PresetSecrets :
        v \in BOOLEAN, b \in {None, "https://api.openai.com/v1"},
        g \in {"none", "exclusive"} }

\* studio on k3s with every combination of the SMTP and OIDC integrations
RenderIntegrationInputs ==
    { [ studio_enabled |-> TRUE, backend |-> "k3s", domain |-> "test.local", tls_mode |-> t,
        smtp_enabled |-> s, smtp_host |-> "smtp.test.com", smtp_auth |-> "user@test.com",
        smtp_no_reply_email |-> "noreply@test.com", smtp_password |-> sp,
        oidc_google_enabled |-> g, oidc_google_client_id |-> "google-id",
        oidc_google_client_secret |-> "google-secret",
        oidc_github_enabled |-> h, oidc_github_client_id |-> "github-id",
        oidc_github_client_secret |-> "github-secret",
        oidc_native_type |-> nt, oidc_native_client_id |-> "native-id",
        oidc_native_client_secret |-> "native-secret",
        oidc_native_url |-> "https://sso.linagora.com" ]
      @@ NoFlags @@ PresetSecrets :
        <<t, sp>> \in {<<"mkcert", "smtp-pass">>, <<"off", None>>},
        s \in BOOLEAN, g \in BOOLEAN, h \in BOOLEAN, nt \in {None, "linagora"} }

AllFlags ==
    [ studio_enabled |-> TRUE, stt_enabled |-> TRUE, live_session_enabled |-> TRUE,
      llm_enabled |-> TRUE ]

TagOverrides ==
    "studio-api" :> "1.6.0" @@ "db-studio-mongo" :> "7.0" @@ "db-stt-mongo" :> ""
    @@ "linto-stt-whisper" :> "2.0" @@ "llm-gateway" :> "" @@ "llm-vllm-openai" :> "v0.6"
    @@ "studio-mongo" :> "9.9" @@ "db-llm-redis" :> "8.0"

\* k3s profiles: GPU modes and counts, per-service tags, storage
RenderK3sInputs ==
    { [ backend |-> "k3s", gpu_mode |-> g, gpu_count |-> c, service_tags |-> x[2],
        k3s_storage_class |-> x[3], k3s_database_host_path |-> x[4],
        k3s_database_node_role |-> "db" ] @@ x[1] @@ PresetSecrets :
        g \in GPUMode, c \in {1, 2, 3},
        x \in { <<[stt_enabled |-> TRUE], EmptyDict, None, None>>,
                << [streaming_stt_variants |-> <<"whisper">>, vllm_enabled |-> TRUE]
                   @@ AllFlags, TagOverrides, "local-path", "/data/db" >> } }

RenderInputs ==
    RenderFlagInputs \cup RenderUnfilledInputs \cup RenderTlsInputs \cup RenderLiveInputs
    \cup RenderLlmInputs
    \cup RenderIntegrationInputs \cup RenderK3sInputs

Init == InitWith(RenderInputs)

Next == Construct \/ GenerateSecrets \/ RenderCompose \/ RenderStack \/ RenderK3s

Spec == Init /\ [][Next]_vars

-----------------------------------------------------------------------------
(* Deployments: stored k3s profiles applied to and removed from a cluster *)

\* Each run makes one call of apply_k3s or destroy_k3s on the stored profile,
\* from a cluster and a disk that are fresh or were left by earlier calls.
DeployedCluster == [namespace |-> TRUE, certManager |-> TRUE, monitoring |-> TRUE, tlsSecrets |-> TRUE]

RenderedDisk == [k3s_dir |-> TRUE, values |-> {"studio-values.yaml"}, certs |-> TRUE, saves |-> 1]

DeployInputs ==
    { [backend |-> "k3s", monitoring_enabled |-> m] @@ t @@ f @@ NoFlags @@ PresetSecrets :
        m \in BOOLEAN,
        t \in { [tls_mode |-> "off"],
                [tls_mode |-> "acme", acme_email |-> "ops@example.com"],
                [tls_mode |-> "acme", acme_email |-> "ops@example.com",
                 k3s_install_cert_manager |-> TRUE] },
        f \in { [studio_enabled |-> TRUE], [stt_enabled |-> TRUE, llm_enabled |-> TRUE],
                AllFlags } }
    \cup { [backend |-> "k3s", studio_enabled |-> TRUE, live_session_enabled |-> TRUE] @@ NoFlags,
           [backend |-> "k3s"] @@ NoFlags }

InitK3s ==
    /\ data \in DeployInputs
    /\ pc = "new"
    /\ profile = NoProfile
    /\ error = ""
    /\ genArg = NoProfile
    /\ genCount = 0
    /\ composeRuns = <<>>
    /\ stackRuns = <<>>
    /\ k3sRuns = <<>>
    /\ charts \in {AllCharts, AllCharts \ {"linto-stt"}}
    /\ cluster \in {FreshCluster, [FreshCluster EXCEPT !.namespace = TRUE], DeployedCluster}
    /\ disk \in {EmptyDisk, RenderedDisk}
    /\ opCall = NoCall
    /\ opLog = <<>>
    /\ opOutcome = ""
    /\ CliInit
    /\ StoreInit
    /\ KcInit

NextK3s == Construct \/ ApplyK3s \/ DestroyK3s

SpecK3s == InitK3s /\ [][NextK3s]_vars

-----------------------------------------------------------------------------
(* Command lines: one linto command on a stored profile *)

CliInputs ==
    { [backend |-> b, monitoring_enabled |-> TRUE] @@ t @@ f @@ NoFlags @@ PresetSecrets :
        b \in DeploymentBackend,
        t \in { [tls_mode |-> "off"],
                [tls_mode |-> "acme", acme_email |-> "ops@example.com"] },
        f \in { [studio_enabled |-> TRUE], [stt_enabled |-> TRUE, llm_enabled |-> TRUE] } }

InitCli ==
    /\ data \in CliInputs
    /\ pc = "new"
    /\ profile = NoProfile
    /\ error = ""
    /\ genArg = NoProfile
    /\ genCount = 0
    /\ composeRuns = <<>>
    /\ stackRuns = <<>>
    /\ k3sRuns = <<>>
    /\ charts = AllCharts
    /\ cluster \in {FreshCluster, DeployedCluster}
    /\ disk \in {EmptyDisk, RenderedDisk}
    /\ opCall = NoCall
    /\ opLog = <<>>
    /\ opOutcome = ""
    /\ CliInit
    /\ StoreInit
    /\ KcInit

NextCli == Construct \/ CliRender \/ CliDeploy \/ CliDestroy \/ CliStatus

SpecCli == InitCli /\ [][NextCli]_vars

-----------------------------------------------------------------------------
(* Kubeconfig contexts: nested `with KubeconfigContext(...)` blocks *)

\* KUBECONFIG before the first context: unset, set to the empty string, set
EnvironValues == {None, "", "/home/user/.kube/config"}

InitKc ==
    /\ data = EmptyDict
    /\ pc = "new"
    /\ profile = NoProfile
    /\ error = ""
    /\ genArg = NoProfile
    /\ genCount = 0
    /\ composeRuns = <<>>
    /\ stackRuns = <<>>
    /\ k3sRuns = <<>>
    /\ EnvInit
    /\ CliInit
    /\ StoreInit
    /\ environ \in EnvironValues
    /\ tmpFiles = {}
    /\ contexts = <<>>
    /\ entered = 0
    /\ created = 0
    /\ outerEnv = None

NextKc == KcEnter \/ KcExit

SpecKc == InitKc /\ [][NextKc]_vars

-----------------------------------------------------------------------------
(* Profiles directories for the profile operations *)

\* a hand-written profile, a profile written by save_profile, and a file
\* whose content the model validator rejects (no service enabled)
StoredFiles ==
    "dev" :> [name |-> "dev", domain |-> "test.local", backend |-> "k3s"]
    @@ "test" :> ProfileConfig([name |-> "test", stt_enabled |-> FALSE]).value
    @@ "prod-1" :> [name |-> "prod-1", studio_enabled |-> FALSE, stt_enabled |-> FALSE]

Directories == { [s \in S |-> StoredFiles[s]] : S \in SUBSET DOMAIN StoredFiles }

ModelInit ==
    /\ pc = "new"
    /\ profile = NoProfile
    /\ error = ""
    /\ genArg = NoProfile
    /\ genCount = 0
    /\ composeRuns = <<>>
    /\ stackRuns = <<>>
    /\ k3sRuns = <<>>

InitStore ==
    /\ data = EmptyDict
    /\ ModelInit
    /\ EnvInit
    /\ CliInit
    /\ KcInit
    /\ files \in Directories
    /\ fsCall = NoOp
    /\ fsResult = Result(<<>>)
    /\ rendered = <<>>
    /\ passes = [i \in Pids |-> NoPass]
    /\ genRuns = <<>>
    /\ gpuCall = NoCheck

NextStore == ListProfiles \/ DeleteProfile \/ CopyProfile \/ LoadProfile

SpecStore == InitStore /\ [][NextStore]_vars

-----------------------------------------------------------------------------
(* Input families for the GPU capacity check *)

\* every GPU mode and a few GPU counts and slice counts over profiles with
\* no GPU service, optional ones, mandatory ones and both
GpuInputs ==
    { [backend |-> "k3s", gpu_mode |-> g, gpu_count |-> c, gpu_slices_per_gpu |-> s]
      @@ x @@ NoFlags :
        g \in GPUMode, c \in {1, 2}, s \in {1, 4},
        x \in { [studio_enabled |-> TRUE],
                [stt_enabled |-> TRUE],
                [ live_session_enabled |-> TRUE, kyutai_gpu_architecture |-> "hopper",
                  streaming_stt_variants |-> <<"nemo-french", "nemo-english", "kyutai">> ],
                [ live_session_enabled |-> TRUE,
                  streaming_stt_variants |-> <<"whisper", "kaldi-french">> ],
                [llm_enabled |-> TRUE, vllm_enabled |-> TRUE],
                [ stt_enabled |-> TRUE, llm_enabled |-> TRUE, vllm_enabled |-> TRUE,
                  live_session_enabled |-> TRUE,
                  streaming_stt_variants |-> <<"whisper", "nemo-french">> ] } }

InitGpu == InitWith(GpuInputs)

NextGpu == Construct \/ ValidateGpuCapacity

SpecGpu == InitGpu /\ [][NextGpu]_vars

-----------------------------------------------------------------------------
(* Stored profiles for generate_k3s and apply_k3s *)

\* profiles as the wizard saves them, with the secrets unset, set in part
\* and set, and a file whose content is rejected
StoredInputs ==
    { [name |-> Stored, backend |-> "k3s"] @@ f @@ s :
        f \in { [studio_enabled |-> TRUE, stt_enabled |-> TRUE] @@ NoFlags,
                [live_session_enabled |-> TRUE, llm_enabled |-> TRUE] @@ NoFlags,
                [streaming_stt_variants |-> <<"whisper">>] @@ AllFlags },
        s \in { EmptyDict, [jwt_secret |-> "jwt-secret", redis_password |-> ""],
                PresetSecrets } }
    \cup { [name |-> Stored] @@ NoFlags }

InitStored ==
    /\ data \in StoredInputs
    /\ ModelInit
    /\ EnvInit
    /\ CliInit
    /\ KcInit
    /\ files = (Stored :> data)
    /\ fsCall = NoOp
    /\ fsResult = Result(<<>>)
    /\ rendered = <<>>
    /\ passes = [i \in Pids |-> NoPass]
    /\ genRuns = <<>>
    /\ gpuCall = NoCheck

\* two processes, each running generate_k3s once
NextPasses == \E i \in Pids : GenLoad(i) \/ GenSave(i) \/ GenRender(i)

SpecPasses == InitStored /\ [][NextPasses]_vars

\* one process calling generate_k3s and apply_k3s one after the other
NextRepeat == GenerateK3s \/ ApplyStored

SpecRepeat == InitStored /\ [][NextRepeat]_vars

-----------------------------------------------------------------------------
(* The three artifacts of one profile side by side (SpecArtifacts) *)

\* studio with kyutai among the streaming variants, the live-session block
\* on or off, the architecture set or not
ArtifactKyutaiInputs ==
    { [ studio_enabled |-> TRUE, live_session_enabled |-> l, streaming_stt_variants |-> v,
        kyutai_gpu_architecture |-> a ] @@ NoFlags @@ PresetSecrets :
        l \in BOOLEAN, v \in {<<"kyutai">>, <<"whisper", "kyutai">>},
        a \in {None, "hopper"} }

\* every combination of the four feature flags with TLS off and on, the TLS
\* modes that need further settings, and the kyutai selections
ArtifactInputs == RenderFlagInputs \cup RenderTlsInputs \cup ArtifactKyutaiInputs

InitArtifacts == InitWith(ArtifactInputs)

NextArtifacts == Construct \/ GenerateSecrets \/ RenderCompose \/ RenderStack \/ RenderK3s

SpecArtifacts == InitArtifacts /\ [][NextArtifacts]_vars

-----------------------------------------------------------------------------
(* Properties of ProfileConfig construction (SpecValidate) *)

Constructed == pc = "constructed"
Failed == pc = "failed"
Attempted == pc # "new"

\* C1: constructing a profile with the four feature flags all false fails,
\* whatever the other fields are, so every constructed profile has at least
\* one of the four flags true.
C1_AtLeastOneService ==
    /\ (Attempted /\ ~Arg.studio_enabled /\ ~Arg.stt_enabled
          /\ ~Arg.live_session_enabled /\ ~Arg.llm_enabled) => Failed
    /\ Constructed => (profile.studio_enabled \/ profile.stt_enabled
                         \/ profile.live_session_enabled \/ profile.llm_enabled)

C1_Witness ==
    /\ Failed
    /\ ~Arg.studio_enabled /\ ~Arg.stt_enabled /\ ~Arg.live_session_enabled /\ ~Arg.llm_enabled
    /\ Arg.tls_mode = "acme" /\ Truthy(Arg.acme_email)
    /\ error = "At least one service must be enabled (Studio, STT, Live Session, or LLM)"

KyutaiSelected(p) == "kyutai" \in Range(p.streaming_stt_variants)

\* C6 as stated: kyutai among streaming_stt_variants with no
\* kyutai_gpu_architecture makes construction fail whatever the other fields
\* are, so a constructed profile that selects kyutai has an architecture.
C6_Original ==
    /\ (Attempted /\ KyutaiSelected(Arg) /\ Arg.kyutai_gpu_architecture = None) => Failed
    /\ Constructed => (KyutaiSelected(profile) => profile.kyutai_gpu_architecture # None)

\* C6 amended: with live_session_enabled true, kyutai among
\* streaming_stt_variants with no kyutai_gpu_architecture makes construction
\* fail; in every constructed profile with live_session_enabled, kyutai
\* selected implies an architecture is set.
C6_KyutaiNeedsArchitectureWhenLive ==
    /\ (Attempted /\ Arg.live_session_enabled /\ KyutaiSelected(Arg)
          /\ Arg.kyutai_gpu_architecture = None) => Failed
    /\ (Constructed /\ profile.live_session_enabled /\ KyutaiSelected(profile))
          => profile.kyutai_gpu_architecture # None

C6_Witness ==
    /\ Failed
    /\ Arg.live_session_enabled /\ KyutaiSelected(Arg) /\ Arg.kyutai_gpu_architecture = None
    /\ error = "Kyutai streaming STT requires kyutai_gpu_architecture to be set"

\* C7: tls_mode=acme without acme_email fails and tls_mode=custom without
\* custom_cert_path or without custom_key_path fails; a constructed profile in
\* acme mode has an email and one in custom mode has both paths.
C7_TlsRequirements ==
    /\ (Attempted /\ Arg.tls_mode = "acme" /\ ~Truthy(Arg.acme_email)) => Failed
    /\ (Attempted /\ Arg.tls_mode = "custom" /\ ~Truthy(Arg.custom_cert_path)) => Failed
    /\ (Attempted /\ Arg.tls_mode = "custom" /\ ~Truthy(Arg.custom_key_path)) => Failed
    /\ (Constructed /\ profile.tls_mode = "acme") => Truthy(profile.acme_email)
    /\ (Constructed /\ profile.tls_mode = "custom")
          => (Truthy(profile.custom_cert_path) /\ Truthy(profile.custom_key_path))

C7_Witness ==
    /\ Failed
    /\ Arg.tls_mode = "custom"
    /\ Truthy(Arg.custom_cert_path) /\ ~Truthy(Arg.custom_key_path)
    /\ error = "Custom TLS mode requires custom_cert_path and custom_key_path"

SmtpMessages ==
    { "SMTP host is required when SMTP is enabled",
      "SMTP auth user is required when SMTP is enabled",
      "No-reply email is required when SMTP is enabled" }

GoogleMessages ==
    { "Google client ID is required when Google OIDC is enabled",
      "Google client secret is required when Google OIDC is enabled" }

GithubMessages ==
    { "GitHub client ID is required when GitHub OIDC is enabled",
      "GitHub client secret is required when GitHub OIDC is enabled" }

NativeMessages ==
    { "Native OIDC type must be 'linagora' or 'eu'",
      "Native OIDC client ID is required when type is set",
      "Native OIDC client secret is required when type is set",
      "Native OIDC URL is required when type is set" }

\* C8: construction fails whenever an enabled integration lacks a mandatory
\* field (SMTP: host, auth, no-reply address, each alone; Google and GitHub:
\* client id, client secret; native OIDC: client id, client secret, url, or a
\* type other than linagora / eu); a disabled integration never causes a
\* failure.  "Set" and "lacks" are the code's truthiness: an empty string
\* counts as not given.
C8_IntegrationRequirements ==
    /\ (Attempted /\ Arg.smtp_enabled /\ ~Truthy(Arg.smtp_host)) => Failed
    /\ (Attempted /\ Arg.smtp_enabled /\ ~Truthy(Arg.smtp_auth)) => Failed
    /\ (Attempted /\ Arg.smtp_enabled /\ ~Truthy(Arg.smtp_no_reply_email)) => Failed
    /\ (Attempted /\ Arg.oidc_google_enabled /\ ~Truthy(Arg.oidc_google_client_id)) => Failed
    /\ (Attempted /\ Arg.oidc_google_enabled /\ ~Truthy(Arg.oidc_google_client_secret)) => Failed
    /\ (Attempted /\ Arg.oidc_github_enabled /\ ~Truthy(Arg.oidc_github_client_id)) => Failed
    /\ (Attempted /\ Arg.oidc_github_enabled /\ ~Truthy(Arg.oidc_github_client_secret)) => Failed
    /\ (Attempted /\ Truthy(Arg.oidc_native_type)
          /\ Arg.oidc_native_type \notin {"linagora", "eu"}) => Failed
    /\ (Attempted /\ Truthy(Arg.oidc_native_type) /\ ~Truthy(Arg.oidc_native_client_id)) => Failed
    /\ (Attempted /\ Truthy(Arg.oidc_native_type) /\ ~Truthy(Arg.oidc_native_client_secret)) => Failed
    /\ (Attempted /\ Truthy(Arg.oidc_native_type) /\ ~Truthy(Arg.oidc_native_url)) => Failed
    /\ (Failed /\ ~Arg.smtp_enabled) => error \notin SmtpMessages
    /\ (Failed /\ ~Arg.oidc_google_enabled) => error \notin GoogleMessages
    /\ (Failed /\ ~Arg.oidc_github_enabled) => error \notin GithubMessages
    /\ (Failed /\ ~Truthy(Arg.oidc_native_type)) => error \notin NativeMessages

\* native OIDC lacks only its url while the two other providers are complete
C8_Witness ==
    /\ Failed
    /\ Arg.oidc_google_enabled /\ Arg.oidc_github_enabled /\ Arg.oidc_native_type = "eu"
    /\ Truthy(Arg.oidc_native_client_id) /\ Truthy(Arg.oidc_native_client_secret)
    /\ ~Truthy(Arg.oidc_native_url)
    /\ error = "Native OIDC URL is required when type is set"

\* the three OIDC providers enabled in one constructed profile
AllProvidersTogether ==
    /\ Constructed
    /\ profile.oidc_google_enabled /\ profile.oidc_github_enabled
    /\ profile.oidc_native_type = "linagora"

-----------------------------------------------------------------------------
(* Properties of the secret provider (SpecSecrets) *)

NonSecretFields == DOMAIN FieldDefaults \ SecretFields

Generated == genCount >= 1 /\ Constructed

\* C2 as stated: generate_secrets keeps every secret field that was non-null
\* in its argument and every non-secret field, and a second application
\* changes nothing.
C2_Original ==
    Generated =>
        /\ \A f \in SecretFields : genArg[f] # None => profile[f] = genArg[f]
        /\ \A f \in NonSecretFields : profile[f] = genArg[f]
        /\ genCount >= 2 => profile = genArg

\* C2 amended: generate_secrets keeps every secret field that was non-null
\* and non-empty in its argument and every non-secret field, and a second
\* application changes nothing.
C2_KeepsSetSecrets ==
    Generated =>
        /\ \A f \in SecretFields : Truthy(genArg[f]) => profile[f] = genArg[f]
        /\ \A f \in NonSecretFields : profile[f] = genArg[f]
        /\ genCount >= 2 => profile = genArg

\* second application on a profile that had one secret preset and one missing
C2_Witness ==
    /\ Generated /\ genCount = 2
    /\ Arg.redis_password = "redis-pass" /\ profile.redis_password = "redis-pass"
    /\ Arg.jwt_secret = None /\ Truthy(profile.jwt_secret)
    /\ profile = genArg

AllSecretsNull(p) == \A f \in SecretFields : p[f] = None

\* C9: one generate_secrets call on a profile whose secrets are all null sets
\* redis_password, jwt_secret, jwt_refresh_secret and super_admin_password;
\* sets session_postgres_password and session_crypt_key exactly when
\* live_session_enabled; sets the four llm secrets exactly when llm_enabled.
C9_FillsRequiredSecrets ==
    (Generated /\ genCount = 1 /\ AllSecretsNull(genArg)) =>
        /\ \A f \in {"redis_password", "jwt_secret", "jwt_refresh_secret",
                     "super_admin_password"} : Truthy(profile[f])
        /\ \A f \in {"session_postgres_password", "session_crypt_key"} :
              IF profile.live_session_enabled THEN Truthy(profile[f]) ELSE profile[f] = None
        /\ \A f \in {"llm_postgres_password", "llm_redis_password", "llm_encryption_key",
                     "llm_admin_password"} :
              IF profile.llm_enabled THEN Truthy(profile[f]) ELSE profile[f] = None

C9_Witness ==
    /\ Generated /\ genCount = 1 /\ AllSecretsNull(genArg)
    /\ profile.llm_enabled /\ ~profile.live_session_enabled
    /\ Truthy(profile.llm_encryption_key) /\ profile.session_crypt_key = None

-----------------------------------------------------------------------------
(* Properties of the renderers (Spec) *)

\* the secrets generate_secrets would fill: those of the enabled features
RequiredSecrets(p) ==
    {"redis_password", "jwt_secret", "jwt_refresh_secret", "super_admin_password"}
    \cup (IF p.live_session_enabled
          THEN {"session_postgres_password", "session_crypt_key"} ELSE {})
    \cup (IF p.llm_enabled
          THEN {"llm_postgres_password", "llm_redis_password", "llm_encryption_key",
                "llm_admin_password"}
          ELSE {})

SecretsFilled(p) == \A f \in RequiredSecrets(p) : Truthy(p[f])

AllEqual(runs) == \A i \in DOMAIN runs : \A j \in DOMAIN runs : runs[i] = runs[j]

\* C3: for a profile whose secrets are filled, the documents returned by
\* repeated render_compose calls are equal, those returned by repeated
\* render_stack calls are equal, and the values files written by repeated
\* render_k3s runs are identical.
C3_RenderDeterministic ==
    (Constructed /\ SecretsFilled(profile)) =>
        AllEqual(composeRuns) /\ AllEqual(stackRuns) /\ AllEqual(k3sRuns)

\* a filled profile with all three artifacts rendered twice
C3_Witness ==
    /\ Constructed /\ \A f \in SecretFields : Truthy(profile[f])
    /\ Len(composeRuns) = 2 /\ Len(stackRuns) = 2 /\ Len(k3sRuns) = 2
    /\ composeRuns[1] = composeRuns[2]
    /\ "studio-api" \in DOMAIN composeRuns[1].services
    /\ "studio-values.yaml" \in DOMAIN k3sRuns[2]

\* the studio values documents written so far
StudioValues == { k3sRuns[i]["studio-values.yaml"] :
                    i \in {j \in DOMAIN k3sRuns : "studio-values.yaml" \in DOMAIN k3sRuns[j]} }

\* key is set to the given field under studioApi.secrets and is not a key of
\* studioApi.env, nor is a non-empty value of the field a value of env
UnderSecretsOnly(v, key, value) ==
    /\ key \in DOMAIN v.studioApi.secrets
    /\ v.studioApi.secrets[key] = OrEmpty(value)
    /\ key \notin DOMAIN v.studioApi.env
    /\ Truthy(value) => \A k \in DOMAIN v.studioApi.env : v.studioApi.env[k] # value

\* C4: in every studio values document, the SMTP password when SMTP is
\* enabled and the client secret of each enabled OIDC provider (Google,
\* GitHub, native) is under studioApi.secrets and not under studioApi.env.
C4_IntegrationSecretsUnderSecrets ==
    Constructed =>
      \A v \in StudioValues :
        /\ profile.smtp_enabled => UnderSecretsOnly(v, "SMTP_PSWD", profile.smtp_password)
        /\ profile.oidc_google_enabled =>
             UnderSecretsOnly(v, "GOOGLE_CLIENT_SECRET", profile.oidc_google_client_secret)
        /\ profile.oidc_github_enabled =>
             UnderSecretsOnly(v, "GITHUB_CLIENT_SECRET", profile.oidc_github_client_secret)
        /\ Truthy(profile.oidc_native_type) =>
             UnderSecretsOnly(v, "OIDC_CLIENT_SECRET", profile.oidc_native_client_secret)

\* SMTP and the three providers enabled together, values written
C4_Witness ==
    /\ Constructed /\ StudioValues # {}
    /\ profile.smtp_enabled /\ profile.smtp_password = "smtp-pass"
    /\ profile.oidc_google_enabled /\ profile.oidc_github_enabled
    /\ profile.oidc_native_type = "linagora"
    /\ \A v \in StudioValues : v.studioApi.secrets.SMTP_PSWD = "smtp-pass"

SensitiveFields ==
    SecretFields \cup { "smtp_password", "oidc_google_client_secret",
                        "oidc_github_client_secret", "oidc_native_client_secret" }

\* the values found under the env subtrees of a values document
EnvValues(v) ==
    UNION { {v[c].env[k] : k \in DOMAIN v[c].env} :
              c \in {x \in DOMAIN v : "env" \in DOMAIN v[x]} }

\* C5 as stated: in every values file written by render_k3s no set sensitive
\* field of the profile, the super-admin password included, is a value of an
\* env subtree.
C5_SensitiveNeverUnderEnv ==
    Constructed =>
      \A i \in DOMAIN k3sRuns : \A file \in DOMAIN k3sRuns[i] :
        \A f \in SensitiveFields :
          Truthy(profile[f]) => profile[f] \notin EnvValues(k3sRuns[i][file])

\* the service a streaming variant adds to the live-session block
StreamingServiceName(variant) ==
    CASE variant = "whisper" -> "stt-whisper-streaming"
      [] variant = "kaldi-french" -> "stt-kaldi-french-streaming"
      [] variant = "nemo-french" -> "stt-nemo-french-streaming"
      [] variant = "nemo-english" -> "stt-nemo-english-streaming"
      [] variant = "kyutai" -> "stt-kyutai-streaming"

\* traefik and the services of every enabled block
ExpectedServiceNames(p) ==
    Range(get_infra_services)
    \cup (IF p.studio_enabled THEN Range(get_studio_services) ELSE {})
    \cup (IF p.stt_enabled THEN Range(get_stt_services) ELSE {})
    \cup (IF p.live_session_enabled
          THEN Range(get_live_session_services)
               \cup {StreamingServiceName(v) : v \in Range(p.streaming_stt_variants)}
          ELSE {})
    \cup (IF p.llm_enabled
          THEN Range(get_llm_services) \cup (IF p.vllm_enabled THEN {"vllm-service"} ELSE {})
          ELSE {})

\* the labels of every service of a Compose document
ComposeLabels(doc) ==
    UNION { Range(doc.services[n].labels) :
              n \in {x \in DOMAIN doc.services : "labels" \in DOMAIN doc.services[x]} }

IsTlsLabel(l) == \E i \in DOMAIN l.key : l.key[i] = "tls"

\* C10: the service names of every Compose document are traefik plus the
\* services of each enabled block and nothing else; a studio-only profile
\* gives exactly traefik, studio-mongodb, studio-api, studio-frontend and
\* studio-websocket; with tls_mode off no label of any service is a TLS label
\* and no router listens on the TLS entrypoint.
C10_ComposeServiceSet ==
    Constructed =>
      \A i \in DOMAIN composeRuns :
        LET doc == composeRuns[i]
        IN  /\ DOMAIN doc.services = ExpectedServiceNames(profile)
            /\ (profile.studio_enabled /\ ~profile.stt_enabled
                  /\ ~profile.live_session_enabled /\ ~profile.llm_enabled) =>
                 DOMAIN doc.services = {"traefik", "studio-mongodb", "studio-api",
                                        "studio-frontend", "studio-websocket"}
            /\ profile.tls_mode = "off" =>
                 \A l \in ComposeLabels(doc) : ~IsTlsLabel(l) /\ l.value # "websecure"

\* a studio-only profile with TLS off, rendered, whose routers carry labels
C10_Witness ==
    /\ Constructed /\ Len(composeRuns) >= 1
    /\ profile.studio_enabled /\ ~profile.stt_enabled
    /\ ~profile.live_session_enabled /\ ~profile.llm_enabled
    /\ profile.tls_mode = "off"
    /\ Cardinality(DOMAIN composeRuns[1].services) = 5
    /\ ComposeLabels(composeRuns[1]) # {}

-----------------------------------------------------------------------------
(* Properties of the k3s values (Spec) *)

\* the documents written so far under a file name
ValuesFiles(file) ==
    { k3sRuns[i][file] : i \in {j \in DOMAIN k3sRuns : file \in DOMAIN k3sRuns[j]} }

MultiGpu(p) == p.gpu_mode \in {"exclusive", "time-slicing", "timeslicing"} /\ p.gpu_count > 1

\* C11: in every STT values document whisperWorkers and diarization carry,
\* when gpu_mode is exclusive or time-slicing (or its alias) and gpu_count > 1,
\* replicasPerGpu = gpu_count ones and no replicas key; otherwise replicas = 1,
\* no replicasPerGpu key and no resource limits.
C11_ReplicasPerGpu ==
    Constructed =>
      \A v \in ValuesFiles("stt-values.yaml") : \A c \in {"whisperWorkers", "diarization"} :
        IF MultiGpu(profile)
        THEN /\ "replicasPerGpu" \in DOMAIN v[c]
             /\ Len(v[c].replicasPerGpu) = profile.gpu_count
             /\ \A i \in DOMAIN v[c].replicasPerGpu : v[c].replicasPerGpu[i] = 1
             /\ "replicas" \notin DOMAIN v[c]
        ELSE /\ "replicas" \in DOMAIN v[c] /\ v[c].replicas = 1
             /\ "replicasPerGpu" \notin DOMAIN v[c]
             /\ "resources" \in DOMAIN v[c] => "limits" \notin DOMAIN v[c].resources

\* three GPUs under time-slicing, STT values written
C11_Witness ==
    /\ Constructed /\ profile.gpu_mode = "time-slicing" /\ profile.gpu_count = 3
    /\ ValuesFiles("stt-values.yaml") # {}
    /\ \A v \in ValuesFiles("stt-values.yaml") : v.whisperWorkers.replicasPerGpu = <<1, 1, 1>>

\* The image tags of the values documents: file, component, the key looked
\* up in service_tags, and the database default ("" for a service).
TagRows ==
    { <<"studio-values.yaml", "studioApi", "studio-api", "">>,
      <<"studio-values.yaml", "studioFrontend", "studio-frontend", "">>,
      <<"studio-values.yaml", "studioWebsocket", "studio-websocket", "">>,
      <<"studio-values.yaml", "mongodb", "db-studio-mongo", "6.0.2">>,
      <<"stt-values.yaml", "apiGateway", "linto-api-gateway", "">>,
      <<"stt-values.yaml", "whisper", "linto-transcription-service", "">>,
      <<"stt-values.yaml", "whisperWorkers", "linto-stt-whisper", "">>,
      <<"stt-values.yaml", "diarization", "linto-diarization-pyannote", "">>,
      <<"stt-values.yaml", "redis", "db-stt-redis", "7.4.0-v8">>,
      <<"stt-values.yaml", "mongodb", "db-stt-mongo", "6.0.2">>,
      <<"live-values.yaml", "migration", "studio-plugins-migration", "">>,
      <<"live-values.yaml", "sessionApi", "studio-plugins-sessionapi", "">>,
      <<"live-values.yaml", "sessionScheduler", "studio-plugins-scheduler", "">>,
      <<"live-values.yaml", "sessionTranscriber", "studio-plugins-transcriber", "">>,
      <<"live-values.yaml", "postgres", "db-live-postgres", "15-alpine">>,
      <<"live-values.yaml", "broker", "db-live-mosquitto", "2">>,
      <<"llm-values.yaml", "llmGatewayApi", "llm-gateway", "">>,
      <<"llm-values.yaml", "celeryWorker", "llm-gateway", "">>,
      <<"llm-values.yaml", "llmGatewayFrontend", "llm-gateway-frontend", "">>,
      <<"llm-values.yaml", "postgres", "db-llm-postgres", "15-alpine">>,
      <<"llm-values.yaml", "redis", "db-llm-redis", "7.4.0-v8">> }

\* every listed component, and every streaming variant, carries the tag
\* Expected(key, default) gives it
TagsAre(Expected(_, _)) ==
    \A i \in DOMAIN k3sRuns :
      /\ \A r \in TagRows :
           r[1] \in DOMAIN k3sRuns[i] =>
             k3sRuns[i][r[1]][r[2]].image.tag = Expected(r[3], r[4])
      /\ "live-values.yaml" \in DOMAIN k3sRuns[i] =>
           \A v \in Range(profile.streaming_stt_variants) :
             k3sRuns[i]["live-values.yaml"].streamingStt[VariantKey(v)].image.tag
               = Expected(variant_image_map[v], "")

VllmTagIs(fallback) ==
    \A v \in ValuesFiles("llm-values.yaml") :
      v.vllm.image.tag = IF "llm-vllm-openai" \in DOMAIN profile.service_tags
                         THEN profile.service_tags["llm-vllm-openai"] ELSE fallback

\* the override when the key is present, else the database default, else image_tag
TagAsStated(key, default) ==
    IF key \in DOMAIN profile.service_tags THEN profile.service_tags[key]
    ELSE IF default # "" THEN default ELSE profile.image_tag

\* as above, an empty override of a database counting as absent
TagAsCoded(key, default) ==
    IF default # ""
    THEN IF key \in DOMAIN profile.service_tags /\ profile.service_tags[key] # ""
         THEN profile.service_tags[key] ELSE default
    ELSE IF key \in DOMAIN profile.service_tags THEN profile.service_tags[key]
         ELSE profile.image_tag

\* C12 as stated: every image tag of the k3s values documents is the entry of
\* service_tags under the service's name when there is one, and otherwise
\* image_tag, or for a database (db- prefix) its hardcoded default.
C12_Original ==
    Constructed => TagsAre(TagAsStated) /\ VllmTagIs(profile.image_tag)

\* C12 amended: as stated, except that an empty db- override is ignored and
\* that the vLLM image, looked up under llm-vllm-openai, falls back to
\* "latest", not to image_tag.
C12_TagResolution ==
    Constructed => TagsAre(TagAsCoded) /\ VllmTagIs("latest")

\* a profile with overrides, all four values files written: studio-api takes
\* its override, studio-frontend falls back to image_tag
C12_Witness ==
    /\ Constructed /\ profile.service_tags = TagOverrides
    /\ Len(k3sRuns) >= 1 /\ Cardinality(DOMAIN k3sRuns[1]) = 4
    /\ k3sRuns[1]["studio-values.yaml"].studioApi.image.tag = "1.6.0"
    /\ k3sRuns[1]["studio-values.yaml"].studioFrontend.image.tag = "latest-unstable"
    /\ k3sRuns[1]["studio-values.yaml"].mongodb.image.tag = "7.0"
    /\ k3sRuns[1]["llm-values.yaml"].postgres.image.tag = "15-alpine"

CallbackUri(p, path) ==
    (IF p.tls_mode = "off" THEN "http" ELSE "https") \o "://" \o p.domain \o path

\* C13: in every studio values document each enabled OIDC provider has its
\* callback URI under studioApi.env: {scheme}://{domain}/cm-api/auth/oidc/google/cb,
\* .../github/cb, and .../oidc/cb for the native provider, with scheme http
\* when tls_mode is off and https otherwise.
C13_OidcCallbackUris ==
    Constructed =>
      \A v \in ValuesFiles("studio-values.yaml") :
        LET env == v.studioApi.env
        IN  /\ profile.oidc_google_enabled =>
                 /\ "GOOGLE_OIDC_CALLBACK_URI" \in DOMAIN env
                 /\ env.GOOGLE_OIDC_CALLBACK_URI
                      = CallbackUri(profile, "/cm-api/auth/oidc/google/cb")
            /\ profile.oidc_github_enabled =>
                 /\ "GITHUB_OIDC_CALLBACK_URI" \in DOMAIN env
                 /\ env.GITHUB_OIDC_CALLBACK_URI
                      = CallbackUri(profile, "/cm-api/auth/oidc/github/cb")
            /\ Truthy(profile.oidc_native_type) =>
                 /\ "OIDC_CALLBACK_URI" \in DOMAIN env
                 /\ env.OIDC_CALLBACK_URI = CallbackUri(profile, "/cm-api/auth/oidc/cb")

\* the three providers enabled with TLS off: http callback URIs
C13_Witness ==
    /\ Constructed /\ profile.tls_mode = "off" /\ profile.domain = "test.local"
    /\ profile.oidc_google_enabled /\ profile.oidc_github_enabled
    /\ profile.oidc_native_type = "linagora"
    /\ ValuesFiles("studio-values.yaml") # {}
    /\ \A v \in ValuesFiles("studio-values.yaml") :
         /\ v.studioApi.env.GOOGLE_OIDC_CALLBACK_URI
              = "http://test.local/cm-api/auth/oidc/google/cb"
         /\ v.studioApi.env.OIDC_CALLBACK_URI = "http://test.local/cm-api/auth/oidc/cb"

-----------------------------------------------------------------------------
(* Properties of apply_k3s and destroy_k3s (SpecK3s) *)

Applied == opCall.name = "apply_k3s"

Destroyed == opCall.name = "destroy_k3s"

\* the commands and file operations that change the cluster or the disk
MutatingCmds ==
    { "kubectl create namespace", "kubectl apply", "kubectl delete pvc", "helm install",
      "helm upgrade --install", "helm uninstall", "save_profile", "write", "rmtree" }

\* the targets of the steps of the log that run cmd on something else than the
\* monitoring stack, in order
Targets(cmd) ==
    LET sel == SelectSeq(opLog, LAMBDA st : st.cmd = cmd /\ st.target \notin {"prometheus", "dcgm-exporter"})
    IN  [i \in DOMAIN sel |-> sel[i].target]

\* the positions of the log numbered by phase never go down
InPhaseOrder(Phase(_)) == \A i, j \in DOMAIN opLog : i < j => Phase(opLog[i]) <= Phase(opLog[j])

HasPhase(Phase(_), n) == \E i \in DOMAIN opLog : Phase(opLog[i]) = n

\* C14: a call of apply_k3s or destroy_k3s whose prerequisite check reports
\* something missing raises K3S_PREREQUISITES_MISSING and leaves the cluster,
\* the disk and the stored profile as they were, having run no mutating command.
C14_PrerequisiteGate ==
    [][ (opCall = NoCall /\ opCall' # NoCall /\ opCall'.missing # <<>>) =>
          /\ opOutcome' = "K3S_PREREQUISITES_MISSING"
          /\ cluster' = cluster /\ disk' = disk /\ profile' = profile
          /\ \A i \in DOMAIN opLog' : opLog'[i].cmd \notin MutatingCmds ]_vars

\* destroy_k3s with files and volumes to remove on a deployed cluster, helm absent
C14_Witness ==
    /\ Destroyed /\ opCall.remove_files /\ opCall.remove_volumes
    /\ opCall.missing = <<"helm not found">>
    /\ opOutcome = "K3S_PREREQUISITES_MISSING"
    /\ cluster = DeployedCluster /\ disk = RenderedDisk /\ opLog = <<>>

\* the phase of a step of apply_k3s: 1 namespace, 2 cert-manager, 3 TLS
\* restore, 4 values regenerated, 5 chart upgrades, 6 monitoring
ApplyPhase(st) ==
    IF st.target = "cert-manager" THEN 2
    ELSE IF st.cmd \in {"kubectl get namespace", "kubectl create namespace"} THEN 1
    ELSE IF st.cmd = "kubectl apply" THEN 3
    ELSE IF st.cmd \in {"save_profile", "write"} THEN 4
    ELSE IF st.cmd = "helm upgrade --install" /\ st.target # "prometheus" THEN 5
    ELSE 6

\* C15: once the prerequisites pass, apply_k3s ensures the namespace first;
\* cert-manager (if requested) and the TLS restore come next and only under
\* acme; then the values are regenerated, on every apply that gets there; then
\* the chart upgrades; then monitoring, if enabled.  No helm upgrade precedes
\* the regeneration, and none is run when the namespace could not be ensured.
C15_ApplyOrder ==
    (Applied /\ opCall.missing = <<>>) =>
      /\ opLog # <<>> /\ ApplyPhase(opLog[1]) = 1
      /\ InPhaseOrder(ApplyPhase)
      /\ (HasPhase(ApplyPhase, 2) \/ HasPhase(ApplyPhase, 3)) => profile.tls_mode = "acme"
      /\ HasPhase(ApplyPhase, 2) => profile.k3s_install_cert_manager
      /\ HasPhase(ApplyPhase, 6) => profile.monitoring_enabled
      /\ opOutcome = "returned" =>
           /\ Len(Targets("save_profile")) = 1
           /\ HasPhase(ApplyPhase, 2)
                <=> (profile.tls_mode = "acme" /\ profile.k3s_install_cert_manager)
           /\ HasPhase(ApplyPhase, 3) <=> (profile.tls_mode = "acme" /\ disk.certs)
           /\ HasPhase(ApplyPhase, 6) <=> profile.monitoring_enabled
      /\ opOutcome = "NAMESPACE_CREATION_FAILED" =>
           \A i \in DOMAIN opLog : ApplyPhase(opLog[i]) = 1

\* an apply that goes through the six phases
C15_Witness ==
    /\ Applied /\ opOutcome = "returned"
    /\ \A n \in 1..6 : HasPhase(ApplyPhase, n)
    /\ Len(Targets("helm upgrade --install")) = 4

\* the releases of the charts of a set, in the order of the chart list
Releases(S) ==
    LET sel == SelectSeq(ChartNames, LAMBDA c : c \in S)
    IN  [i \in DOMAIN sel |-> ReleaseName(sel[i])]

EnabledCharts == { c \in AllCharts : profile[ChartFlag[c]] }

UninstallsAll == (Destroyed /\ opOutcome = "returned") => Targets("helm uninstall") = Releases(AllCharts)

\* C16 as stated: an apply_k3s that returns has run helm upgrade --install
\* exactly once for every enabled chart, in the order studio, stt, live, llm,
\* and for no other chart, whatever the upgrades answered; a destroy_k3s that
\* returns has run helm uninstall for each of the four releases.
C16_Original ==
    /\ (Applied /\ opOutcome = "returned") =>
         Targets("helm upgrade --install") = Releases(EnabledCharts)
    /\ UninstallsAll

\* C16 amended: as stated, for the enabled charts whose chart directory
\* exists; an enabled chart without its directory is skipped.
C16_OncePerChart ==
    /\ (Applied /\ opOutcome = "returned") =>
         Targets("helm upgrade --install") = Releases(EnabledCharts \cap charts)
    /\ UninstallsAll

\* the first upgrade exits non-zero, the second times out, the third is run
C16_Witness ==
    /\ Applied /\ opOutcome = "returned" /\ Len(opLog) >= 3
    /\ \E i \in DOMAIN opLog :
         /\ i + 2 \in DOMAIN opLog
         /\ opLog[i] = Step("helm upgrade --install", "linto-studio", "nonzero")
         /\ opLog[i + 1] = Step("helm upgrade --install", "linto-stt", "timeout")
         /\ opLog[i + 2].cmd = "helm upgrade --install" /\ opLog[i + 2].target = "linto-live"

\* the phase of a step of destroy_k3s: 1 TLS backup, 2 monitoring, 3 chart
\* releases, 4 PVCs, 5 rendered files
DestroyPhase(st) ==
    IF st.cmd = "kubectl get secrets" \/ st.target = "tls-secrets.json" THEN 1
    ELSE IF st.cmd = "helm uninstall" /\ st.target \in {"prometheus", "dcgm-exporter"} THEN 2
    ELSE IF st.cmd = "helm uninstall" THEN 3
    ELSE IF st.cmd = "kubectl delete pvc" THEN 4
    ELSE 5

\* C17: in destroy_k3s the TLS backup (under acme, and then always) precedes
\* every uninstall, monitoring is uninstalled before the chart releases, the
\* PVCs are deleted only if remove_volumes and after the four chart
\* uninstalls, and the rendered files are removed only if remove_files and
\* after the cluster steps.
C17_DestroyOrder ==
    (Destroyed /\ opOutcome = "returned") =>
      /\ InPhaseOrder(DestroyPhase)
      /\ HasPhase(DestroyPhase, 1) <=> profile.tls_mode = "acme"
      /\ HasPhase(DestroyPhase, 2) <=> profile.monitoring_enabled
      /\ HasPhase(DestroyPhase, 4) <=> opCall.remove_volumes
      /\ HasPhase(DestroyPhase, 4) => Len(Targets("helm uninstall")) = 4
      /\ HasPhase(DestroyPhase, 5) => opCall.remove_files

\* a destroy that goes through the five phases, an uninstall having failed
C17_Witness ==
    /\ Destroyed /\ opOutcome = "returned"
    /\ \A n \in 1..5 : HasPhase(DestroyPhase, n)
    /\ \E i \in DOMAIN opLog : opLog[i] = Step("helm uninstall", "linto-stt", "timeout")
    /\ ~disk.k3s_dir /\ disk.certs

-----------------------------------------------------------------------------
(* Properties of the command line (SpecCli) *)

\* C18: a render, deploy, destroy or status command on a stored profile whose
\* backend is compose or swarm exits with code 1 having called no backend
\* function: the stored profile, the rendered files, the cluster and the
\* record of backend operations are as they were.
C18_UnsupportedBackendGate ==
    [][ (cliCall = NoCommand /\ cliCall' # NoCommand /\ profile.backend \in {"compose", "swarm"}) =>
          /\ cliExit' = <<1>>
          /\ backendCalls' = <<>>
          /\ cliPrompts' = 0
          /\ UNCHANGED <<profile, charts, cluster, disk, opCall, opLog, opOutcome>>
          /\ UNCHANGED <<composeRuns, stackRuns, k3sRuns>> ]_vars

\* destroy --force --volumes on a compose profile with a deployed cluster
C18_Witness ==
    /\ cliCall.command = "destroy" /\ cliCall.force /\ cliCall.volumes
    /\ Constructed /\ profile.backend = "compose"
    /\ cliExit = <<1>> /\ backendCalls = <<>>
    /\ cluster = DeployedCluster /\ disk = RenderedDisk /\ opCall = NoCall

\* C19: destroy calls the backend's destroy only if --force was given or the
\* confirmation was answered yes, and under --volumes without --force only if
\* the data-loss prompt was answered yes too; a declined prompt ends the
\* command with no backend call.
C19_DestroyConfirmed ==
    cliCall.command = "destroy" =>
      LET answers == cliCall.answers
      IN  /\ backendCalls # <<>> =>
               /\ cliCall.force \/ (Len(answers) >= 1 /\ answers[1])
               /\ (cliCall.volumes /\ ~cliCall.force) => (Len(answers) = 2 /\ answers[2])
          /\ (\E i \in DOMAIN answers : ~answers[i]) =>
               /\ backendCalls = <<>>
               /\ opCall = NoCall
               /\ cliExit = <<0>>
          /\ cliPrompts = Len(answers)

\* destroy --volumes confirmed twice: the backend's destroy removed the PVCs
C19_Witness ==
    /\ cliCall.command = "destroy" /\ cliCall.volumes /\ ~cliCall.force
    /\ cliCall.answers = <<TRUE, TRUE>>
    /\ backendCalls = <<"k3s.destroy">>
    /\ opCall.name = "destroy_k3s" /\ opCall.remove_volumes
    /\ \E i \in DOMAIN opLog : opLog[i].cmd = "kubectl delete pvc"

-----------------------------------------------------------------------------
(* Properties of KubeconfigContext (SpecKc) *)

\* the temporary files of the contexts entered and not yet exited
OpenFiles == { contexts[i].temp_file : i \in {j \in DOMAIN contexts : contexts[j].kubeconfig # None} }

\* a step that enters or exits a context built with kubeconfig None
NoneContextStep ==
    \/ Len(contexts') = Len(contexts) + 1 /\ contexts'[Len(contexts')].kubeconfig = None
    \/ Len(contexts') = Len(contexts) - 1 /\ contexts[Len(contexts)].kubeconfig = None

\* C20: once every context entered has exited, KUBECONFIG is what it was
\* before the outermost enter (unset if it was unset) ; the temporary files
\* that exist are those of the contexts still open; entering or exiting a
\* context built with kubeconfig None changes neither the variable nor the files.
C20_KubeconfigRestored ==
    /\ [](/\ tmpFiles = OpenFiles
          /\ (contexts = <<>> /\ entered > 0) => environ = outerEnv)
    /\ [][NoneContextStep => UNCHANGED <<environ, tmpFiles, created>>]_vars

\* three contexts, two of them with a kubeconfig, entered nested and exited
\* with KUBECONFIG set beforehand
C20_Witness ==
    /\ contexts = <<>> /\ entered = 3 /\ created = 2
    /\ outerEnv = "/home/user/.kube/config" /\ environ = outerEnv
    /\ tmpFiles = {}

-----------------------------------------------------------------------------
(* Properties of the profile operations (SpecStore) *)

\* the stems of the files whose content ProfileConfig accepts
ValidStems(fs) == { s \in DOMAIN fs : ProfileConfig(fs[s]).ok }

Rank(name) == CHOOSE k \in DOMAIN NameOrder : NameOrder[k] = name

\* a call of the given function is the step being taken
Calls(op) == fsCall'.n = fsCall.n + 1 /\ fsCall'.op = op

\* C21: list_profiles returns the profiles stored in the profiles directory
\* sorted by name, and a profile file whose content fails validation is left
\* out of the result rather than making the call fail.
C21_ListSkipsInvalid ==
    fsCall.op = "list_profiles" =>
        /\ fsResult.ok
        /\ Len(fsResult.value) = Cardinality(ValidStems(files))
        /\ Range(fsResult.value) = { ProfileConfig(files[s]).value : s \in ValidStems(files) }
        /\ \A i, j \in DOMAIN fsResult.value :
             i < j => Rank(fsResult.value[i].name) <= Rank(fsResult.value[j].name)

\* the outcome and the effect of a copy_profile(src, dst) that creates dst
CopySucceeds(src, dst) ==
    /\ fsResult'.ok
    /\ DOMAIN files' = DOMAIN files \cup {dst}
    /\ files'[dst].name = dst
    /\ \A f \in DOMAIN FieldDefaults \ {"name"} :
         files'[dst][f] = (files[src] @@ FieldDefaults)[f]
    /\ \A s \in DOMAIN files : files'[s] = files[s]

\* the call raises ValidationError(code) and the directory is as it was
CopyFails(kind, code) ==
    /\ ~fsResult'.ok /\ fsResult'.kind = kind
    /\ code # "" => fsResult'.code = code
    /\ files' = files

C30_CopiedProfileLoads ==
    (fsCall.op = "copy_profile" /\ fsResult.ok) =>
        LET r == load_profile(files, fsCall.dst)
        IN  r.ok /\ r.value.name = fsCall.dst

-----------------------------------------------------------------------------
(* Properties of the GPU capacity check (SpecGpu) *)

\* the slots the profile offers, as the profile model's fields give them
StatedSlots(p) ==
    IF p.gpu_mode = "none" THEN 0
    ELSE IF p.gpu_mode = "exclusive" THEN p.gpu_count
    ELSE p.gpu_count * p.gpu_slices_per_gpu

\* C29: for every valid profile, validate_gpu_capacity returns a list of
\* warnings without raising, for each gpu_mode value the profile model
\* accepts: the available slots are 0 for none, gpu_count for exclusive, and
\* gpu_count x gpu_slices_per_gpu for time-slicing in either accepted spelling.
C29_GpuCapacityNeverRaises ==
    gpuCall # NoCheck =>
        /\ gpuCall.ok
        /\ gpuCall.available # <<>> => gpuCall.available[1] = StatedSlots(profile)

-----------------------------------------------------------------------------
(* Properties of generate_k3s on the stored profile (SpecPasses, SpecRepeat) *)

\* every process is through with its generate_k3s call
AllPassesOver == \A i \in Pids : passes[i].pc \in {"done", "failed"}

\* the values files render_k3s writes for the profile now in the profile file
ValuesOfStored == render_k3s(load_profile(files, Stored).value)

\* C23: when two generate operations run concurrently on the same stored
\* profile, their load, secret-fill and save round-trips do not interleave,
\* so that the secrets written into every artifact either pass produces
\* equal the secrets finally persisted in the profile file: once both passes
\* are over, the values files each pass wrote are those of the stored profile.
C23_PassesDoNotInterleave ==
    AllPassesOver =>
        \A i \in Pids : passes[i].pc = "done" => passes[i].written = ValuesOfStored

\* C24: over any sequence of generate and apply calls on a stored profile
\* with no intervening edit, each secret field is generated at most once:
\* every generate after the first leaves the profile file as the first left
\* it and rewrites values files identical to those of the first run.
C24_SecretsGeneratedOnce ==
    \A i \in 2..Len(genRuns) :
        /\ genRuns[i].file = genRuns[1].file
        /\ genRuns[i].values = genRuns[1].values

\* three runs on a profile stored without secrets, the first of which
\* generated them, the last one inside an apply_k3s that deployed
C24_Witness ==
    /\ Len(genRuns) = 3
    /\ data.studio_enabled /\ "jwt_secret" \notin DOMAIN data
    /\ Truthy(genRuns[1].file.jwt_secret)
    /\ files[Stored] = genRuns[3].file
    /\ "studio-values.yaml" \in DOMAIN rendered
    /\ fsCall = Op("apply_k3s", Stored, "", 3)
    /\ opOutcome = "returned"

-----------------------------------------------------------------------------
(* Properties of the artifacts of one profile (SpecArtifacts) *)

KyutaiError == "Kyutai requires gpu_architecture"

\* the variants get_streaming_stt_service is called with for a profile
StreamingCalls(p) == IF p.live_session_enabled THEN Range(p.streaming_stt_variants) ELSE {}

\* C25: for every ProfileConfig that passes construction, render_compose and
\* render_stack never raise the catalog's "Kyutai requires gpu_architecture"
\* error: get_streaming_stt_service is called with kyutai only when
\* kyutai_gpu_architecture is set.
C25_KyutaiErrorUnreachable ==
    Constructed =>
        /\ error # KyutaiError
        /\ \A draw \in 1..NumDraws :
             /\ render_compose(profile, draw).msg # KyutaiError
             /\ render_stack(profile, draw).msg # KyutaiError
        /\ "kyutai" \in StreamingCalls(profile) => profile.kyutai_gpu_architecture # None

\* kyutai selected with no architecture on a profile whose live-session
\* block is off, rendered by both renderers
C25_Witness ==
    /\ Constructed
    /\ KyutaiSelected(profile) /\ profile.kyutai_gpu_architecture = None
    /\ composeRuns # <<>> /\ stackRuns # <<>>

\* the keys a converted service carries in one orchestrator only
ConversionKeys == {"restart", "depends_on", "labels", "deploy"}

Common(svc) == [k \in DOMAIN svc \ ConversionKeys |-> svc[k]]

\* same service, volume and network names; same image, environment and
\* network memberships per service
SameDecisions(c, s) ==
    /\ DOMAIN c.services = DOMAIN s.services
    /\ DOMAIN c.volumes = DOMAIN s.volumes
    /\ DOMAIN c.networks = DOMAIN s.networks
    /\ \A n \in DOMAIN c.services \cap DOMAIN s.services :
         /\ c.services[n].image = s.services[n].image
         /\ Get(c.services[n], "environment", EmptyDict)
              = Get(s.services[n], "environment", EmptyDict)
         /\ Get(c.services[n], "networks", <<>>) = Get(s.services[n], "networks", <<>>)

\* the per-service conversion: Swarm drops depends_on and restart and adds
\* deploy, replicated with 1 replica for a definition without a DeployConfig
ConversionDiffers(p, c, s) ==
    /\ \A n \in DOMAIN s.services :
         /\ "depends_on" \notin DOMAIN s.services[n]
         /\ "deploy" \in DOMAIN s.services[n]
         /\ n \in DOMAIN c.services =>
              /\ "deploy" \notin DOMAIN c.services[n]
              /\ Common(c.services[n]) = Common(s.services[n])
    /\ LET defs == RenderedServices(p).value
       IN  \A i \in DOMAIN defs :
             defs[i].deploy = <<>> =>
               /\ s.services[defs[i].name].deploy.mode = "replicated"
               /\ s.services[defs[i].name].deploy.replicas = 1

Pairs == (DOMAIN composeRuns) \X (DOMAIN stackRuns)

ServiceNetworks(svc) == Range(Get(svc, "networks", <<>>))

Undeclared(doc) ==
    { n \in DOMAIN doc.services :
        ~(ServiceNetworks(doc.services[n]) \subseteq DOMAIN doc.networks) }

\* C27: for every valid profile, each network named in the networks list of
\* a service of the Compose or Swarm artifact is declared in the top-level
\* networks map of that artifact.
C27_NetworksDeclared ==
    Constructed =>
        /\ \A i \in DOMAIN composeRuns : Undeclared(composeRuns[i]) = {}
        /\ \A i \in DOMAIN stackRuns : Undeclared(stackRuns[i]) = {}

CreatesCertificate(doc) ==
    /\ "createCertificate" \in DOMAIN doc.global.tls
    /\ doc.global.tls.createCertificate = TRUE

\* C28: for every valid profile with tls_mode other than off, exactly one of
\* the values documents written by render_k3s has
\* global.tls.createCertificate = true, whichever charts are enabled.
C28_OneCertificateCreator ==
    (Constructed /\ profile.tls_mode # "off") =>
        \A i \in DOMAIN k3sRuns :
          Cardinality({f \in DOMAIN k3sRuns[i] : CreatesCertificate(k3sRuns[i][f])}) = 1

====
